---- MODULE Spec2Model ----
(***************************************************************************)
(* Routing policy of the SIP proxy scripts.                                *)
(*                                                                         *)
(* Four deployment scripts are modelled, each translated branch by branch: *)
(*   "AllInOne"     SIPSorcery.AllInOne/proxyscript-outboundproxy.py       *)
(*   "SIPAppServer" SIPSorcery.SIPAppServer/proxyscript.py                 *)
(*   "ProxyLocal"   SIPSorcery.SIPProxy/ExampleProxyScripts/               *)
(*                  proxyscript-local.py                                   *)
(*   "ProxyExample" SIPSorcery.SIPProxy/ExampleProxyScripts/proxyscript.py *)
(*                                                                         *)
(* The transport delivers one parsed message with its routing context, the *)
(* script of the deployment runs to its end (or to an unhandled Python     *)
(* error) and leaves a list of host calls (sys.Send..., sys.Respond,       *)
(* sys.Log), and the transport completes the invocation.                   *)
(*                                                                         *)
(* The dispatcher affinity table behind sys.DispatcherLookup is the one    *)
(* piece of state that outlives an invocation.                             *)
(*                                                                         *)
(* A second specification, ConcurrentSpec, runs proxyscript-local.py in    *)
(* worker tasks that interleave at their host calls and share the table.   *)
(*                                                                         *)
(* The interactive console (dlrconsole/app/app.py) is modelled in the      *)
(* variable app: the text and caret of the console input, the completion   *)
(* list, the command history and the key target.  Three specifications     *)
(* drive it: CompletionSpec calls the completion list, EditorSpec calls    *)
(* the editor and moves the mouse, KeySpec presses keys, selects tabs and  *)
(* resizes the window.  The drawing of the panes and the text of the       *)
(* output pane are not part of the state.                                  *)
(*                                                                         *)
(* Strings are sequences of tokens, so that ToString, ParseSIPEndPoint and *)
(* StartsWith are computed and not assumed.  None is the empty sequence.   *)
(***************************************************************************)
EXTENDS Integers, Sequences, FiniteSets

VARIABLES script, pc, isreq, ctx, arrived, msg, calls, err, affinity, tasks, app

vars == <<script, pc, isreq, ctx, arrived, msg, calls, err, affinity, tasks, app>>

None == <<>>

\* ------------------------------------------------------------------ bounds

\* Deepest Via stack a delivered message carries.
MaxVias == 2
\* Longest Route list a delivered REGISTER carries.
MaxRoutes == 2
\* Largest Max-Forwards value a delivered request carries (0 is delivered too).
MaxHops == 1

\* --------------------------------------------------------------- endpoints

EP(p, a, port) == [protocol |-> p, address |-> a, port |-> port]

\* IPAddress.ToString(): dotted quad.
IPToString(a) == <<a[1], ".", a[2], ".", a[3], ".", a[4]>>

\* SIPEndPoint.SocketEndPoint.ToString(): address:port, no protocol.
SocketToString(ep) == IPToString(ep.address) \o <<":", ep.port>>

\* SIPEndPoint.ToString(): protocol:address:port.
ToString(ep) == <<ep.protocol, ":">> \o SocketToString(ep)

\* SIPEndPoint.ParseSIPEndPoint of a protocol:a.b.c.d:port string.
ParseSIPEndPoint(s) == EP(s[1], <<s[3], s[5], s[7], s[9]>>, s[11])

\* String.StartsWith.
StartsWith(s, prefix) ==
  /\ Len(s) >= Len(prefix)
  /\ SubSeq(s, 1, Len(prefix)) = prefix

\* The literal "p:a.b.c.d:port" of a script's socket constant.
Socket(p, a1, a2, a3, a4, port) == <<p, ":", a1, ".", a2, ".", a3, ".", a4, ":", port>>

Scripts == {"AllInOne", "SIPAppServer", "ProxyLocal", "ProxyExample"}

m_registrarSocket == Socket("udp", "127", "0", "0", "1", "5001")

m_regAgentSocket == Socket("udp", "127", "0", "0", "1", "5002")

m_proxySocketLoopback == Socket("udp", "127", "0", "0", "1", "5060")

m_appServerSocket(s) ==
  CASE s = "AllInOne" -> Socket("udp", "10", "0", "0", "100", "5061")
    [] s = "SIPAppServer" -> Socket("udp", "10", "1", "1", "2", "5065")
    [] OTHER -> Socket("udp", "10", "1", "1", "5", "5065")

m_notifierSocket(s) ==
  IF s = "ProxyExample" THEN Socket("udp", "10", "249", "142", "143", "5003")
  ELSE Socket("udp", "127", "0", "0", "1", "5003")

m_proxySocketInternal(s) ==
  IF s = "ProxyExample" THEN Socket("udp", "10", "249", "142", "143", "5060")
  ELSE Socket("udp", "10", "1", "1", "5", "5060")

m_proxyExternalSocket == Socket("udp", "10", "1", "1", "2", "5060")

\* The application servers the host of the ProxyExample deployment knows
\* (IsFromAppServer and sys.GetAppServer are supplied by the host there).
HostAppServer == EP("udp", <<"10", "249", "142", "143">>, "5065")

\* A user agent on the public network, and one more address of each class.
ExternalUA == EP("udp", <<"203", "0", "113", "9">>, "5060")

LocalNetDest == EP("udp", <<"10", "1", "1", "77">>, "5060")

PublicNetDest == EP("udp", <<"198", "51", "100", "20">>, "5060")

\* A second application-server instance, known to the dispatcher only.
DispatcherInstance == EP("udp", <<"10", "1", "1", "6">>, "5065")

\* The local sockets a deployment's proxy listens on.
LocalSockets(s) ==
  CASE s = "AllInOne" -> {m_proxySocketLoopback}
    [] s = "SIPAppServer" -> {m_proxyExternalSocket}
    [] OTHER -> {m_proxySocketLoopback, m_proxySocketInternal(s)}

PublicIP == <<"198", "51", "100", "1">>

\* The endpoints a message can be observed to come from in deployment s.
RemoteEndPoints(s) ==
  {ParseSIPEndPoint(m_registrarSocket), ParseSIPEndPoint(m_regAgentSocket),
   ExternalUA}
  \cup (IF s = "ProxyExample" THEN {HostAppServer}
        ELSE {ParseSIPEndPoint(m_appServerSocket(s))})
  \cup (IF s \in {"ProxyLocal", "ProxyExample"}
        THEN {ParseSIPEndPoint(m_notifierSocket(s))} ELSE {})

\* Endpoints that differ from the deployment's application-server socket in
\* exactly one of protocol, address and port, and match no configured socket.
NearMisses(s) ==
  LET a == IF s = "ProxyExample" THEN HostAppServer
           ELSE ParseSIPEndPoint(m_appServerSocket(s))
  IN {EP("tcp", a.address, a.port),
      EP(a.protocol, <<a.address[1], a.address[2], a.address[3], "250">>, a.port),
      EP(a.protocol, a.address, "5066")}

\* ---------------------------------------------------------------- messages

\* SIPViaHeader: sent-by endpoint, branch, parameter bag (a function from the
\* names of the parameters present to their values).
Via(sentBy, branch, params) == [sentBy |-> sentBy, branch |-> branch, params |-> params]

NoParams == [k \in {} |-> None]

\* SIPParameters.Set / Remove / Get.
ParamSet(p, k, v) == [x \in (DOMAIN p) \cup {k} |-> IF x = k THEN v ELSE p[x]]

ParamRemove(p, k) == [x \in (DOMAIN p) \ {k} |-> p[x]]

ParamGet(p, k) == IF k \in DOMAIN p THEN p[k] ELSE None

\* A Route header entry, <sip:host:port>, and SIPRoute.ToSIPEndPoint().
Route(a, port) == [host |-> a, port |-> port]

RouteToSIPEndPoint(r) == EP("udp", r.host, r.port)

Methods == {"REGISTER", "INVITE", "SUBSCRIBE", "NOTIFY", "ACK", "BYE", "CANCEL"}

CiscoUserAgents == {"Cisco-CP7965G/8.5.3", "Cisco-CP7911G/8.5.3"}

UserAgents == CiscoUserAgents \cup {"X-Lite"}

\* Event header values, character by character: "refer;id=1", "presence".
EventRefer == <<"r", "e", "f", "e", "r", ";", "i", "d", "=", "1">>

EventPresence == <<"p", "r", "e", "s", "e", "n", "c", "e">>

ReferPrefix == <<"r", "e", "f", "e", "r">>

\* The Max-Forwards values a request arrives with: absent or spent (the host
\* keeps an int and the scripts subtract from it whatever it holds), zero, and
\* a positive count.
HopValues == {-1, 0, MaxHops}

AgentBranch == "z9hG4bK-agent1"

ProxyBranch == "z9hG4bK-proxy"

UpstreamVia == Via(LocalNetDest, "z9hG4bK-upstream", NoParams)

\* k copies of the Via of an element further upstream.
Upstream(k) == [i \in 1..k |-> UpstreamVia]

\* The upstream Vias of a response to a request whose top Via the script
\* tagged with the socket it was received on (the far end echoes the Vias).
TaggedUpstream(k, socket) ==
  [i \in 1..k |-> IF i = 1
                  THEN [UpstreamVia EXCEPT !.params = ParamSet(@, "proxy", socket)]
                  ELSE UpstreamVia]

\* The requests whose top Via a script tags: REGISTER in the AllInOne
\* script, every method in the SIPAppServer script.
TagsVia(s, method) ==
  \/ s = "AllInOne" /\ method = "REGISTER"
  \/ s = "SIPAppServer"

\* The Contact a user agent behind a NAT reports for itself.
PrivateContact == [host |-> <<"192", ".", "168", ".", "1", ".", "20", ":", "5060">>]

ExistingRecordRoute == <<"sip", ":", "upstream.example.com">>

RouteURIs == {Route(<<"127", "0", "0", "1">>, "5001"), Route(<<"192", "0", "2", "44">>, "5060")}

\* The Route lists of at most n entries: any first entry, then the same
\* further entry repeated (only the first entry is ever read).
RouteLists(n) ==
  {<<>>} \cup {<<r>> \o [i \in 1..k |-> Route(<<"192", "0", "2", "45">>, "5060")] :
                 r \in RouteURIs, k \in 0..(n - 1)}

\* sys.Resolve results: a lookup still pending, a lookup error, no endpoint,
\* or the endpoint found.
Lookup(pending, error, results) ==
  [Pending |-> pending, LookupError |-> error, EndPointResults |-> results]

LookupResults(s) ==
  {Lookup(FALSE, None, None), Lookup(FALSE, None, <<LocalNetDest>>),
   Lookup(FALSE, None, <<PublicNetDest>>)}
  \cup (IF s = "ProxyLocal"
        THEN {Lookup(TRUE, None, None), Lookup(FALSE, <<"NXDOMAIN">>, None)}
        ELSE {})

\* The dispatcher affinity table maps a correlation key to the
\* application-server instance recorded for it, None while nothing is
\* recorded.  One dialog is followed; a message carries its key or none.
CorrelationKeys == {"call-1"}

NoAffinity == [k \in CorrelationKeys |-> None]

\* The application-server instances behind deployment s: the configured one
\* and a second one; only the ExampleProxyScripts deployments look the
\* dispatcher up.
Dispatched(s) ==
  CASE s = "ProxyLocal" -> {ParseSIPEndPoint(m_appServerSocket(s)), DispatcherInstance}
    [] s = "ProxyExample" -> {HostAppServer, DispatcherInstance}
    [] OTHER -> {}

\* The keys a message of deployment s can carry.  Once the table holds an
\* entry, the messages followed are those of the dialogs recorded in it (a
\* message with no key is routed as it is while the table is empty).
MessageKeys(s, table) ==
  IF Dispatched(s) = {} THEN {None}
  ELSE {<<k>> : k \in CorrelationKeys} \cup (IF table = NoAffinity THEN {None} ELSE {})

\* sys.DispatcherLookup(req), sys.DispatcherLookup(resp)
DispatcherLookup(table, m) == IF m.key = None THEN None ELSE table[m.key[1]]

\* Record(correlationKey, endpoint): the last writer wins.
DispatcherRecord(table, key, endPoint) == [table EXCEPT ![key] = <<endPoint>>]

\* A request that starts a dialog: an INVITE, SUBSCRIBE or NOTIFY with no To tag.
DialogEstablishing(m) == m.method \in {"INVITE", "SUBSCRIBE", "NOTIFY"} /\ m.toTag = None

\* The origins whose messages a script routes by asking the resolver: the
\* backend roles.  For any other origin no lookup is made, and none answered.
Resolving(s, remote) ==
  \/ ToString(remote) \in {m_regAgentSocket, m_appServerSocket(s), m_notifierSocket(s)}
  \/ remote = HostAppServer

\* The runs that ask the host for an application server (sys.GetAppServer()
\* in proxyscript.py): a request other than REGISTER, SUBSCRIBE and NOTIFY,
\* or an ACK, CANCEL or INVITE response, not from the application server,
\* and for a request only when the dispatcher gave none.
AsksAppServer(s, request, method, remote, looked) ==
  /\ s = "ProxyExample"
  /\ remote # HostAppServer
  /\ IF request THEN method \notin {"REGISTER", "SUBSCRIBE", "NOTIFY"} /\ looked = None
     ELSE method \in {"ACK", "CANCEL", "INVITE"}

\* The responses whose run calls a function the script defines further down
\* (proxyscript.py), and those whose run reads a name it never assigns.
CallsLateDefinition(s, method, remote) ==
  /\ s = "ProxyExample"
  /\ ~(method = "REGISTER")
  /\ \/ remote = HostAppServer
     \/ method \in {"NOTIFY", "SUBSCRIBE"} /\ ToString(remote) = m_notifierSocket(s)

ReadsUnassigned(s, method, remote, cn) ==
  \/ s = "ProxyExample" /\ remote # HostAppServer /\ method \in {"ACK", "CANCEL", "INVITE"}
  \/ s = "SIPAppServer" /\ method = "INVITE" /\ ~cn

\* What sys.Resolve returns in the deployments where it returns an endpoint
\* or None.
ResolveEndPoint(c) == c.lookup.EndPointResults

BlankMsg ==
  [method |-> "", toTag |-> None, vias |-> <<>>, routes |-> <<>>,
   recordRoutes |-> <<>>, contact |-> <<>>, maxForwards |-> 0,
   userAgent |-> "", event |-> None, uriHost |-> "", localSIPEndPoint |-> None,
   key |-> None]

BlankCtx ==
  [remoteEndPoint |-> ExternalUA, localEndPoint |-> ExternalUA,
   proxyBranch |-> "", publicip |-> None, lookup |-> Lookup(FALSE, None, None),
   dispatcher |-> None, appServer |-> None, isFromAppServer |-> FALSE,
   topVia |-> None, outSocket |-> None, defsBound |-> FALSE,
   staleBound |-> FALSE, stale |-> None, channel |-> None]

\* The worker tasks of the concurrent specification, and a task that holds
\* no message.  dispatcherEndPoint is the script's variable of that name.
Workers == {"task-1", "task-2"}

IdleTask ==
  [pos |-> "idle", isreq |-> TRUE, arrived |-> BlankMsg, msg |-> BlankMsg,
   ctx |-> BlankCtx, looked |-> None, dispatcherEndPoint |-> None,
   outcome |-> [msg |-> BlankMsg, calls |-> <<>>, err |-> ""]]

\* The console as DLRConsoleApp.Initialize leaves it: the input holds one
\* empty line with the caret at its start, no completion list has been made,
\* the history is empty, the Console tab is selected and its input has the
\* keys.  delivered notes the HandleKey calls of the key press being handled
\* and is empty between key presses; shown notes the history as it was when
\* it was last shown, error the Python error that ended the last handler.
NewCaret == [line |-> 0, column |-> 0, toPosition |-> None]

NewCompletionList ==
  [box |-> FALSE, input |-> <<>>, entries |-> <<>>, topIndex |-> 0,
   visibleEntries |-> 0, selectedIndex |-> 0]

NewCommandHistory == [history |-> <<>>, selectedIndex |-> None]

NewApp ==
  [lines |-> <<<<>>>>, Caret |-> NewCaret, dragging |-> FALSE,
   CompletionList |-> NewCompletionList, CommandHistory |-> NewCommandHistory,
   Target |-> "ConsoleInput", selected |-> 0, delivered |-> <<>>,
   shown |-> None, error |-> ""]

\* ---------------------------------------------------------------- state

Init ==
  /\ script \in Scripts
  /\ pc = "idle"
  /\ isreq = TRUE
  /\ ctx = BlankCtx
  /\ arrived = BlankMsg
  /\ msg = BlankMsg
  /\ calls = <<>>
  /\ err = ""
  /\ affinity = NoAffinity
  /\ tasks = [w \in Workers |-> IdleTask]
  /\ app = NewApp

\* The transport hands a parsed request and its routing context to the script.
DeliverRequest ==
  /\ pc = "idle"
  /\ \E method \in Methods, remote \in RemoteEndPoints(script) \cup NearMisses(script),
        local \in LocalSockets(script), tag \in {None, <<"totag-1">>},
        depth \in 1..MaxVias, hops \in HopValues, ua \in UserAgents,
        rport \in BOOLEAN, lookup \in LookupResults(script),
        key \in MessageKeys(script, affinity),
        bound \in BOOLEAN, avail \in BOOLEAN :
       \E routes \in (IF method = "REGISTER" THEN RouteLists(MaxRoutes) ELSE {<<>>}),
          contact \in {<<>>, <<PrivateContact>>},
          event \in (IF method = "NOTIFY" THEN {None, EventRefer, EventPresence} ELSE {None}) :
         LET top == Via(remote, AgentBranch,
                        IF rport THEN [rport |-> None] ELSE NoParams)
             m == [method |-> method, toTag |-> tag,
                   vias |-> <<top>> \o Upstream(depth - 1),
                   routes |-> routes,
                   recordRoutes |-> <<ExistingRecordRoute>>,
                   contact |-> contact, maxForwards |-> hops,
                   userAgent |-> ua, event |-> event,
                   uriHost |-> "callee.example.com",
                   localSIPEndPoint |-> local, key |-> key]
             disp == DispatcherLookup(affinity, m)
         IN /\ (script # "ProxyExample") => (~bound /\ avail)
            /\ ~AsksAppServer(script, TRUE, method, remote, disp) => avail
            /\ (remote \in NearMisses(script)) =>
                 (depth = 1 /\ hops = MaxHops /\ ua = "X-Lite" /\ ~rport /\ tag = None)
            /\ (method # "INVITE" /\ contact # <<>>) =>
                 (depth = 1 /\ hops = MaxHops /\ ua = "X-Lite" /\ ~rport /\ tag = None
                  /\ routes = <<>> /\ event = None /\ remote \notin NearMisses(script))
            /\ ~Resolving(script, remote) => (~bound /\ lookup = Lookup(FALSE, None, None))
            /\ arrived' = m
            /\ msg' = m
            /\ ctx' = [BlankCtx EXCEPT
                         !.remoteEndPoint = remote,
                         !.localEndPoint = ParseSIPEndPoint(local),
                         !.proxyBranch = ProxyBranch,
                         !.publicip = PublicIP,
                         !.lookup = lookup,
                         !.dispatcher = disp,
                         !.appServer = IF avail THEN <<HostAppServer>> ELSE None,
                         !.isFromAppServer = (remote = HostAppServer),
                         !.defsBound = bound]
  /\ isreq' = TRUE
  /\ pc' = "ready"
  /\ calls' = <<>>
  /\ err' = ""
  /\ UNCHANGED <<script, affinity, tasks, app>>

\* ---------------------------------------------------------------- host calls

BlankCall ==
  [op |-> "", dest |-> None, branch |-> "", recvOn |-> None, publicIP |-> None,
   addRecordRoute |-> FALSE, proxySocket |-> None, sendFrom |-> None,
   status |-> "", reason |-> None, text |-> ""]

\* The string of an optional endpoint: None stays None.
OptString(o) == IF o = None THEN None ELSE ToString(o[1])

\* sys.Send(dst, req, branch, channelName)
Send4(dst, branch) == [BlankCall EXCEPT !.op = "Send", !.dest = dst, !.branch = branch]

\* sys.Send(dst, req, branch, channelName, addRecordRoute)
Send5(dst, branch, rr) ==
  [BlankCall EXCEPT !.op = "Send", !.dest = dst, !.branch = branch, !.addRecordRoute = rr]

\* sys.Send(resp)  and  sys.Send(resp, localEndPoint, sendFrom, channelName)
SendResponse == [BlankCall EXCEPT !.op = "SendResponse"]

SendResponseFrom(recvOn, from) ==
  [BlankCall EXCEPT !.op = "SendResponse", !.recvOn = recvOn, !.sendFrom = from]

\* sys.SendTransparent(dest, req, publicIP)
SendTransparent(dst, publicIP) ==
  [BlankCall EXCEPT !.op = "SendTransparent", !.dest = dst, !.publicIP = publicIP]

\* sys.SendTransparent(remoteEndPoint, localEndPoint, resp, proxySocket, dest, branch)
SendTransparentResponse(proxySocket, dst, branch) ==
  [BlankCall EXCEPT !.op = "SendTransparent", !.proxySocket = proxySocket,
                    !.dest = dst, !.branch = branch]

\* sys.SendInternal(remoteEndPoint, localEndPoint, dest, req, proxyBranch, proxySocket)
SendInternal(recvOn, dst, branch, proxySocket) ==
  [BlankCall EXCEPT !.op = "SendInternal", !.recvOn = recvOn, !.dest = dst,
                    !.branch = branch, !.proxySocket = proxySocket]

\* sys.SendInternal(remoteEndPoint, localEndPoint, resp, proxySocket)
SendInternalResponse(proxySocket) ==
  [BlankCall EXCEPT !.op = "SendInternal", !.proxySocket = proxySocket]

\* sys.SendExternal(receivedOn, dest, req, proxyBranch, publicIP)
SendExternal(recvOn, dst, branch, publicIP) ==
  [BlankCall EXCEPT !.op = "SendExternal", !.recvOn = recvOn, !.dest = dst,
                    !.branch = branch, !.publicIP = publicIP]

\* sys.SendExternal(resp, sendFrom)  and  sys.SendExternal(resp, sendFrom, publicIP)
SendExternalResponseCall(from, publicIP) ==
  [BlankCall EXCEPT !.op = "SendExternal", !.sendFrom = from, !.publicIP = publicIP]

\* sys.Respond(req, status, reason)
Respond(status, reason) ==
  [BlankCall EXCEPT !.op = "Respond", !.status = status, !.reason = reason]

\* sys.Log(text)
Log(text) == [BlankCall EXCEPT !.op = "Log", !.text = text]

\* What one run of a script leaves: the message as transformed, the host
\* calls in order, and the unhandled Python error that ended the run, if any.
Done(m, cs) == [msg |-> m, calls |-> cs, err |-> ""]

Raise(m, cs, e) == [msg |-> m, calls |-> cs, err |-> e]

\* SIPViaHeader(endPoint, branch)
SIPViaHeader(endPoint, branch) == Via(endPoint, branch, NoParams)

\* Vias.TopViaHeader
TopViaHeader(m) == Head(m.vias)

\* Vias.PopTopViaHeader(): the message without its top Via (the Via returned
\* is TopViaHeader of the message before).
PopTopViaHeader(m) == [m EXCEPT !.vias = Tail(@)]

\* A push that would add the Via under the stack.
PushViaHeader_Under(m, via) == [m EXCEPT !.vias = @ \o <<via>>]

\* Vias.PushViaHeader
PushViaHeader(m, via) == [m EXCEPT !.vias = <<via>> \o @]

\* req.Header.MaxForwards = req.Header.MaxForwards - 1
DecrementMaxForwards(m) == [m EXCEPT !.maxForwards = @ - 1]

\* Header.Contact != None and Header.Contact.Count > 0
HasContact(m) == m.contact # None /\ Len(m.contact) > 0

\* ------------------------------------------- AllInOne/proxyscript-outboundproxy.py

\* req.GetRequestEndPoint(): the endpoint of the request URI, None when the
\* host finds none.
GetRequestEndPoint(c) == OptString(ResolveEndPoint(c))

\* AllInOneRegister as it would be if it sent the agent's REGISTER with the
\* proxy's own branch.
AllInOneRegister_ProxyBranch(m, c) ==
  IF ToString(c.remoteEndPoint) = m_regAgentSocket
  THEN LET m1 == [m EXCEPT !.vias = Tail(@)]
       IN IF m1.routes = <<>>
          THEN Raise(m1, <<>>, "AttributeError")
          ELSE LET destRegistrar == RouteToSIPEndPoint(Head(m1.routes))
               IN Done([m1 EXCEPT !.routes = None],
                       <<Send4(ToString(destRegistrar), c.proxyBranch)>>)
  ELSE Done([m EXCEPT !.vias[1].params =
                        ParamSet(@, "proxy", ToString(c.localEndPoint))],
            <<Send4(m_registrarSocket, c.proxyBranch)>>)

AllInOneRegister(m, c) ==
  IF ToString(c.remoteEndPoint) = m_regAgentSocket
  THEN LET branch == TopViaHeader(m).branch
           m1 == PopTopViaHeader(m)
       IN IF m1.routes = <<>>
          THEN Raise(m1, <<>>, "AttributeError")
          ELSE LET destRegistrar == RouteToSIPEndPoint(Head(m1.routes))
               IN Done([m1 EXCEPT !.routes = None],
                       <<Send4(ToString(destRegistrar), branch)>>)
  ELSE Done([m EXCEPT !.vias[1].params =
                        ParamSet(@, "proxy", ToString(c.localEndPoint))],
            <<Send4(m_registrarSocket, c.proxyBranch)>>)

\* AllInOneInvite as it would be without the To-tag test.
AllInOneInvite_AlwaysRecordRoute(m, c) ==
  LET m1 == [m EXCEPT !.recordRoutes =
                        <<<<"sip:">> \o ToString(c.localEndPoint)>> \o @]
  IN IF ToString(c.remoteEndPoint) = m_appServerSocket("AllInOne")
     THEN Done(m1, <<Send4(GetRequestEndPoint(c), c.proxyBranch)>>)
     ELSE LET m2 == IF HasContact(m1)
                    THEN [m1 EXCEPT !.contact[1].host = ToString(c.remoteEndPoint)]
                    ELSE m1
          IN Done(m2, <<Send4(m_appServerSocket("AllInOne"), c.proxyBranch)>>)

AllInOneInvite(m, c) ==
  LET m1 == IF m.toTag = None
            THEN [m EXCEPT !.recordRoutes =
                             <<<<"sip:">> \o ToString(c.localEndPoint)>> \o @]
            ELSE m
  IN IF ToString(c.remoteEndPoint) = m_appServerSocket("AllInOne")
     THEN Done(m1, <<Send4(GetRequestEndPoint(c), c.proxyBranch)>>)
     ELSE LET m2 == IF HasContact(m1)
                    THEN [m1 EXCEPT !.contact[1].host = ToString(c.remoteEndPoint)]
                    ELSE m1
          IN Done(m2, <<Send4(m_appServerSocket("AllInOne"), c.proxyBranch)>>)

\* AllInOneOther as it would be if it rewrote the Contact host the way the
\* INVITE branch does.
AllInOneOther_MangleContact(m, c) ==
  IF ToString(c.remoteEndPoint) = m_appServerSocket("AllInOne")
  THEN Done(m, <<Send4(GetRequestEndPoint(c), c.proxyBranch)>>)
  ELSE LET m2 == IF HasContact(m)
                 THEN [m EXCEPT !.contact[1].host = ToString(c.remoteEndPoint)]
                 ELSE m
       IN Done(m2, <<Send4(m_appServerSocket("AllInOne"), c.proxyBranch)>>)

AllInOneOther(m, c) ==
  IF ToString(c.remoteEndPoint) = m_appServerSocket("AllInOne")
  THEN Done(m, <<Send4(GetRequestEndPoint(c), c.proxyBranch)>>)
  ELSE Done(m, <<Send4(m_appServerSocket("AllInOne"), c.proxyBranch)>>)

\* A script that would refuse a request whose hops are spent.
AllInOneRequest_HopLimit(m0, c) ==
  IF m0.maxForwards <= 0
  THEN Done(m0, <<Respond("TooManyHops", None)>>)
  ELSE LET m == DecrementMaxForwards(m0)
       IN CASE m.method = "REGISTER" -> AllInOneRegister(m, c)
            [] m.method = "INVITE" -> AllInOneInvite(m, c)
            [] OTHER -> AllInOneOther(m, c)

AllInOneRequest(m0, c) ==
  LET m == DecrementMaxForwards(m0)
  IN CASE m.method = "REGISTER" -> AllInOneRegister(m, c)
       [] m.method = "INVITE" -> AllInOneInvite(m, c)
       [] OTHER -> AllInOneOther(m, c)

\* ------------------------------------------- SIPAppServer/proxyscript.py

\* sys.Resolve(uri) of a Route whose host is an address literal: that address,
\* or None when the resolver has no answer.
ResolveURI(r, c) ==
  IF ResolveEndPoint(c) = None THEN None ELSE <<RouteToSIPEndPoint(r)>>

\* The script as it would be without lines 18-21.
AppServerTagVia_Never(m, c) == m

\* Lines 18-21: a request from outside records the socket it arrived on.
AppServerTagVia(m, c) ==
  IF /\ ToString(c.remoteEndPoint) # m_appServerSocket("SIPAppServer")
     /\ ToString(c.remoteEndPoint) # m_registrarSocket
     /\ ToString(c.remoteEndPoint) # m_regAgentSocket
  THEN [m EXCEPT !.vias[1].params = ParamSet(@, "proxy", ToString(c.localEndPoint))]
  ELSE m

AppServerRegister(m, c) ==
  IF ToString(c.remoteEndPoint) = m_regAgentSocket
  THEN LET branch == TopViaHeader(m).branch
           m1 == PopTopViaHeader(m)
       IN IF m1.routes = <<>>
          THEN Raise(m1, <<>>, "AttributeError")
          ELSE LET destRegistrar == ResolveURI(Head(m1.routes), c)
                   m2 == [m1 EXCEPT !.routes = None,
                                    !.localSIPEndPoint = m_proxyExternalSocket]
               IN Done(m2, <<Send5(OptString(destRegistrar), branch, FALSE)>>)
  ELSE Done([m EXCEPT !.localSIPEndPoint = None],
            <<Send5(m_registrarSocket, c.proxyBranch, FALSE)>>)

AppServerInvite(m, c) ==
  IF ToString(c.remoteEndPoint) = m_appServerSocket("SIPAppServer")
  THEN LET dstEndPoint == ResolveEndPoint(c)
       IN IF dstEndPoint # None
          THEN Done(m, <<Send5(OptString(dstEndPoint), c.proxyBranch, m.toTag = None)>>)
          ELSE Done(m, <<Log("Failed to resolve destination for INVITE, request dropped.")>>)
  ELSE LET m1 == IF HasContact(m)
                 THEN [m EXCEPT !.contact[1].host = SocketToString(c.remoteEndPoint)]
                 ELSE m
           m2 == [m1 EXCEPT !.localSIPEndPoint = None]
       IN Done(m2, <<Send5(m_appServerSocket("SIPAppServer"), c.proxyBranch,
                           m.toTag = None)>>)

\* AppServerOther as it would be with the final else missing: the request of
\* the application server is sent on and then sent to the application server.
AppServerOther_FallThrough(m0, c) ==
  LET m == [DecrementMaxForwards(m0) EXCEPT !.localSIPEndPoint = None]
  IN Done(m, <<Send5(OptString(ResolveEndPoint(c)), c.proxyBranch, FALSE),
               Send5(m_appServerSocket("SIPAppServer"), c.proxyBranch, FALSE)>>)

AppServerOther(m0, c) ==
  LET pre == IF m0.method = "BYE" THEN <<Log("BYE Routes")>> ELSE <<>>
      m == [DecrementMaxForwards(m0) EXCEPT !.localSIPEndPoint = None]
  IN IF ToString(c.remoteEndPoint) = m_appServerSocket("SIPAppServer")
     THEN LET dstEndPoint == ResolveEndPoint(c)
          IN IF dstEndPoint # None
             THEN Done(m, pre \o <<Send5(OptString(dstEndPoint), c.proxyBranch, FALSE)>>)
             ELSE Done(m, pre \o <<Log("Failed to resolve destination, request dropped.")>>)
     ELSE Done(m, pre \o <<Send5(m_appServerSocket("SIPAppServer"), c.proxyBranch, FALSE)>>)

AppServerRequest(m0, c) ==
  LET m == AppServerTagVia(DecrementMaxForwards(m0), c)
  IN CASE m.method = "REGISTER" -> AppServerRegister(m, c)
       [] m.method = "INVITE" -> AppServerInvite(m, c)
       [] OTHER -> AppServerOther(m, c)

\* ------------------------------------------- values compared by the scripts

\* req.Method is a SIPMethodsEnum; a Python string is another type, and values
\* of different types are never equal.
SIPMethodsEnum(name) == [enum |-> name]

PyStr(chars) == [str |-> chars]

\* SIPMethodsEnum.ToString()
EnumToString(e) == PyStr(e.enum)

\* A step that would strip rport whatever the client.
StripRport_Always(m) == [m EXCEPT !.vias[1].params = ParamRemove(@, "rport")]

\* req.Header.UserAgent == "Cisco-CP7965G/8.5.3" or ... == "Cisco-CP7911G/8.5.3"
StripRport(m) ==
  IF m.userAgent = "Cisco-CP7965G/8.5.3" \/ m.userAgent = "Cisco-CP7911G/8.5.3"
  THEN [m EXCEPT !.vias[1].params = ParamRemove(@, "rport")]
  ELSE m

UnresolvableReason(m) == <<"Host ", m.uriHost, " unresolvable">>

\* ------------------------------------------- ExampleProxyScripts/proxyscript-local.py

GetAppServerLocal == m_appServerSocket("ProxyLocal")

\* An origin test that would compare the address alone.
IsFromApplicationServer_AddressOnly(c) ==
  c.remoteEndPoint.address = ParseSIPEndPoint(m_appServerSocket("ProxyLocal")).address

IsFromApplicationServer(c) == ToString(c.remoteEndPoint) = m_appServerSocket("ProxyLocal")

IsFromNotifierServer(c) == ToString(c.remoteEndPoint) = m_notifierSocket("ProxyLocal")

IsLocalNetDestinationLocal(destinationEP) ==
  IF StartsWith(IPToString(destinationEP.address), <<"10", ".">>) THEN TRUE ELSE FALSE

\* SendExternalRequest as it would be with the public IP handed over on the
\* local-network branch of a non-transparent send too.
SendExternalRequestLocal_PublicOnLocal(receivedOn, m, proxyBranch, publicIP, sendTransparently, c) ==
  LET lookupResult == c.lookup
  IN IF lookupResult.Pending
     THEN <<Log("DNS lookup pending")>>
     ELSE IF \/ lookupResult.LookupError # None
             \/ lookupResult.EndPointResults = None
             \/ Len(lookupResult.EndPointResults) = 0
     THEN IF EnumToString(SIPMethodsEnum(m.method)) # PyStr("ACK")
          THEN <<Respond("DoesNotExistAnywhere", UnresolvableReason(m))>>
          ELSE <<>>
     ELSE LET dest == lookupResult.EndPointResults[1]
          IN IF sendTransparently
             THEN <<SendTransparent(ToString(dest),
                                    IF IsLocalNetDestinationLocal(dest) THEN None ELSE publicIP)>>
             ELSE <<SendExternal(receivedOn, ToString(dest), proxyBranch, publicIP)>>

\* SendExternalRequest as it would be without the test for a pending lookup.
SendExternalRequestLocal_PendingFails(receivedOn, m, proxyBranch, publicIP, sendTransparently, c) ==
  LET lookupResult == c.lookup
  IN IF \/ lookupResult.LookupError # None
        \/ lookupResult.EndPointResults = None
        \/ Len(lookupResult.EndPointResults) = 0
     THEN IF EnumToString(SIPMethodsEnum(m.method)) # PyStr("ACK")
          THEN <<Respond("DoesNotExistAnywhere", UnresolvableReason(m))>>
          ELSE <<>>
     ELSE LET dest == lookupResult.EndPointResults[1]
          IN IF IsLocalNetDestinationLocal(dest)
             THEN IF sendTransparently
                  THEN <<SendTransparent(ToString(dest), None)>>
                  ELSE <<SendExternal(receivedOn, ToString(dest), proxyBranch, None)>>
             ELSE IF sendTransparently
                  THEN <<SendTransparent(ToString(dest), publicIP)>>
                  ELSE <<SendExternal(receivedOn, ToString(dest), proxyBranch, publicIP)>>

\* The host calls SendExternalRequest makes.
SendExternalRequestLocal(receivedOn, m, proxyBranch, publicIP, sendTransparently, c) ==
  LET lookupResult == c.lookup
  IN IF lookupResult.Pending
     THEN <<Log("DNS lookup pending")>>
     ELSE IF \/ lookupResult.LookupError # None
             \/ lookupResult.EndPointResults = None
             \/ Len(lookupResult.EndPointResults) = 0
     THEN IF EnumToString(SIPMethodsEnum(m.method)) # PyStr("ACK")
          THEN <<Respond("DoesNotExistAnywhere", UnresolvableReason(m))>>
          ELSE <<>>
     ELSE LET dest == lookupResult.EndPointResults[1]
          IN IF IsLocalNetDestinationLocal(dest)
             THEN IF sendTransparently
                  THEN <<SendTransparent(ToString(dest), None)>>
                  ELSE <<SendExternal(receivedOn, ToString(dest), proxyBranch, None)>>
             ELSE IF sendTransparently
                  THEN <<SendTransparent(ToString(dest), publicIP)>>
                  ELSE <<SendExternal(receivedOn, ToString(dest), proxyBranch, publicIP)>>

\* LocalRegister as it would be if it ignored the Route and used the
\* configured registrar.
LocalRegister_ToRegistrar(m, c) ==
  IF ToString(c.remoteEndPoint) = m_regAgentSocket
  THEN IF m.routes = <<>>
       THEN Done(m, <<Log("Registration agent request was missing Route header.")>>)
       ELSE Done([m EXCEPT !.routes = None],
                 <<SendTransparent(m_registrarSocket, c.publicip)>>)
  ELSE Done(m, <<SendInternal(ToString(c.localEndPoint), m_registrarSocket, c.proxyBranch, m_proxySocketLoopback)>>)

LocalRegister(m, c) ==
  IF ToString(c.remoteEndPoint) = m_regAgentSocket
  THEN IF m.routes = <<>>
       THEN Done(m, <<Log("Registration agent request was missing Route header.")>>)
       ELSE LET route == Head(m.routes)
                destRegistrar == RouteToSIPEndPoint(route)
            IN Done([m EXCEPT !.routes = None],
                    <<SendTransparent(ToString(destRegistrar), c.publicip)>>)
  ELSE Done(m, <<SendInternal(ToString(c.localEndPoint), m_registrarSocket, c.proxyBranch, m_proxySocketLoopback)>>)

\* A deployment that would not support SUBSCRIBE.
LocalSubscribe_NotAllowed(m, c) == Done(m, <<Respond("MethodNotAllowed", None)>>)

LocalSubscribe(m, c) ==
  Done(m, <<SendInternal(ToString(c.localEndPoint), m_notifierSocket("ProxyLocal"), c.proxyBranch,
                         m_proxySocketLoopback)>>)

\* LocalNotify as it would be if the Event test came before the origin test.
LocalNotify_ReferFirst(m, c) ==
  IF m.event # None /\ StartsWith(m.event, ReferPrefix)
  THEN Done(m, <<SendInternal(ToString(c.localEndPoint), GetAppServerLocal, c.proxyBranch,
                              m_proxySocketInternal("ProxyLocal"))>>)
  ELSE IF IsFromApplicationServer(c) \/ IsFromNotifierServer(c)
       THEN Done(m, SendExternalRequestLocal(ToString(c.localEndPoint), m, c.proxyBranch,
                                             c.publicip, FALSE, c))
       ELSE Done(m, <<SendInternal(ToString(c.localEndPoint), m_notifierSocket("ProxyLocal"), c.proxyBranch,
                                   m_proxySocketLoopback)>>)

LocalNotify(m, c) ==
  IF IsFromApplicationServer(c) \/ IsFromNotifierServer(c)
  THEN Done(m, SendExternalRequestLocal(ToString(c.localEndPoint), m, c.proxyBranch,
                                        c.publicip, FALSE, c))
  ELSE IF m.event # None /\ StartsWith(m.event, ReferPrefix)
       THEN Done(m, <<SendInternal(ToString(c.localEndPoint), GetAppServerLocal, c.proxyBranch,
                                   m_proxySocketInternal("ProxyLocal"))>>)
       ELSE Done(m, <<SendInternal(ToString(c.localEndPoint), m_notifierSocket("ProxyLocal"), c.proxyBranch,
                                   m_proxySocketLoopback)>>)

LocalOther(m, c) ==
  IF IsFromApplicationServer(c)
  THEN IF \/ EnumToString(SIPMethodsEnum(m.method)) = PyStr("ACK")
          \/ EnumToString(SIPMethodsEnum(m.method)) = PyStr("CANCEL")
          \/ EnumToString(SIPMethodsEnum(m.method)) = PyStr("INVITE")
       THEN Done(m, SendExternalRequestLocal(None, m, "", c.publicip, TRUE, c))
       ELSE Done(m, SendExternalRequestLocal(ToString(c.localEndPoint), m,
                                             c.proxyBranch, c.publicip, FALSE, c))
  ELSE LET dispatcherEndPoint == c.dispatcher
       IN IF dispatcherEndPoint # None
          THEN Done(m, <<SendInternal(ToString(c.localEndPoint), OptString(dispatcherEndPoint), c.proxyBranch,
                                      m_proxySocketInternal("ProxyLocal"))>>)
          ELSE LET appServer == GetAppServerLocal
               IN IF appServer # None
                  THEN Done(m, <<SendInternal(ToString(c.localEndPoint), appServer, c.proxyBranch,
                                              m_proxySocketInternal("ProxyLocal"))>>)
                  ELSE Done(m, <<Respond("BadGateway",
                                         <<"No sipsorcery app servers available">>)>>)

LocalRequest(m0, c) ==
  LET m == StripRport(DecrementMaxForwards(m0))
  IN CASE m.method = "REGISTER" -> LocalRegister(m, c)
       [] m.method = "SUBSCRIBE" -> LocalSubscribe(m, c)
       [] m.method = "NOTIFY" -> LocalNotify(m, c)
       [] OTHER -> LocalOther(m, c)

\* ------------------------------------------- ExampleProxyScripts/proxyscript.py

IsLocalNetDestinationExample(destinationEP) == FALSE

\* The script defines its functions after the request and response blocks
\* that call them.  A call finds the name bound only when the scope the host
\* runs the script in still holds the definitions of an earlier run
\* (c.defsBound); otherwise it ends the run with a NameError.
SendExternalRequestExample(receivedOn, m, proxyBranch, publicIP, sendTransparently, c) ==
  LET dest == ResolveEndPoint(c)
  IN IF dest = None
     THEN IF SIPMethodsEnum(m.method) # PyStr("ACK")
          THEN <<Respond("DoesNotExistAnywhere", UnresolvableReason(m))>>
          ELSE <<>>
     ELSE IF IsLocalNetDestinationExample(dest[1])
     THEN IF sendTransparently
          THEN <<SendTransparent(OptString(dest), None)>>
          ELSE <<SendExternal(receivedOn, OptString(dest), proxyBranch, None)>>
     ELSE IF sendTransparently
          THEN <<SendTransparent(OptString(dest), publicIP)>>
          ELSE <<SendExternal(receivedOn, OptString(dest), proxyBranch, publicIP)>>

CallSendExternalRequestExample(receivedOn, m, proxyBranch, publicIP, sendTransparently, c) ==
  IF c.defsBound
  THEN Done(m, SendExternalRequestExample(receivedOn, m, proxyBranch, publicIP,
                                          sendTransparently, c))
  ELSE Raise(m, <<>>, "NameError")

ExampleRegister(m, c) ==
  IF ToString(c.remoteEndPoint) = m_regAgentSocket
  THEN IF m.routes = <<>>
       THEN Raise(m, <<>>, "AttributeError")
       ELSE LET destRegistrar == RouteToSIPEndPoint(Head(m.routes))
            IN Done([m EXCEPT !.routes = None],
                    <<SendTransparent(ToString(destRegistrar), c.publicip)>>)
  ELSE Done(m, <<SendInternal(ToString(c.localEndPoint), m_registrarSocket, c.proxyBranch, m_proxySocketLoopback)>>)

ExampleSubscribe(m, c) ==
  Done(m, <<SendInternal(ToString(c.localEndPoint), m_notifierSocket("ProxyExample"), c.proxyBranch,
                         m_proxySocketLoopback)>>)

ExampleNotify(m, c) ==
  IF c.isFromAppServer \/ ToString(c.remoteEndPoint) = m_notifierSocket("ProxyExample")
  THEN CallSendExternalRequestExample(ToString(c.localEndPoint), m, c.proxyBranch,
                                      c.publicip, FALSE, c)
  ELSE Done(m, <<SendInternal(ToString(c.localEndPoint), m_notifierSocket("ProxyExample"), c.proxyBranch,
                              m_proxySocketLoopback)>>)

\* ExampleOther with the last branch only logging.
ExampleOther_LogNoServer(m, c) ==
  IF c.isFromAppServer
  THEN IF \/ EnumToString(SIPMethodsEnum(m.method)) = PyStr("ACK")
          \/ EnumToString(SIPMethodsEnum(m.method)) = PyStr("CANCEL")
          \/ EnumToString(SIPMethodsEnum(m.method)) = PyStr("INVITE")
       THEN CallSendExternalRequestExample(None, m, "", c.publicip, TRUE, c)
       ELSE CallSendExternalRequestExample(ToString(c.localEndPoint), m,
                                           c.proxyBranch, c.publicip, FALSE, c)
  ELSE LET dispatcherEndPoint == c.dispatcher
       IN IF dispatcherEndPoint # None
          THEN Done(m, <<SendInternal(ToString(c.localEndPoint), OptString(dispatcherEndPoint), c.proxyBranch,
                                      m_proxySocketInternal("ProxyExample"))>>)
          ELSE LET appServer == c.appServer
               IN IF appServer # None
                  THEN Done(m, <<SendInternal(ToString(c.localEndPoint), OptString(appServer), c.proxyBranch,
                                              m_proxySocketInternal("ProxyExample"))>>)
                  ELSE Done(m, <<Log("No sipsorcery app servers available")>>)

ExampleOther(m, c) ==
  IF c.isFromAppServer
  THEN IF \/ EnumToString(SIPMethodsEnum(m.method)) = PyStr("ACK")
          \/ EnumToString(SIPMethodsEnum(m.method)) = PyStr("CANCEL")
          \/ EnumToString(SIPMethodsEnum(m.method)) = PyStr("INVITE")
       THEN CallSendExternalRequestExample(None, m, "", c.publicip, TRUE, c)
       ELSE CallSendExternalRequestExample(ToString(c.localEndPoint), m,
                                           c.proxyBranch, c.publicip, FALSE, c)
  ELSE LET dispatcherEndPoint == c.dispatcher
       IN IF dispatcherEndPoint # None
          THEN Done(m, <<SendInternal(ToString(c.localEndPoint), OptString(dispatcherEndPoint), c.proxyBranch,
                                      m_proxySocketInternal("ProxyExample"))>>)
          ELSE LET appServer == c.appServer
               IN IF appServer # None
                  THEN Done(m, <<SendInternal(ToString(c.localEndPoint), OptString(appServer), c.proxyBranch,
                                              m_proxySocketInternal("ProxyExample"))>>)
                  ELSE Done(m, <<Respond("BadGateway",
                                         <<"No sipsorcery app servers available">>)>>)

ExampleRequest(m0, c) ==
  LET m == StripRport(DecrementMaxForwards(m0))
  IN CASE m.method = "REGISTER" -> ExampleRegister(m, c)
       [] m.method = "SUBSCRIBE" -> ExampleSubscribe(m, c)
       [] m.method = "NOTIFY" -> ExampleNotify(m, c)
       [] OTHER -> ExampleOther(m, c)

\* ------------------------------------------- response processing

\* The response block as it would be if it only sent the response on.
AllInOneResponse_SendOnly(m, c) == Done(m, <<SendResponse>>)

AllInOneResponse(m, c) ==
  LET topVia == c.topVia[1]
  IN IF m.method = "REGISTER" /\ ToString(c.remoteEndPoint) # m_registrarSocket
     THEN Done(PushViaHeader(m, SIPViaHeader(ParseSIPEndPoint(m_regAgentSocket),
                                             topVia.branch)),
               <<SendResponse>>)
     ELSE IF m.method = "INVITE"
     THEN LET m1 == IF HasContact(m)
                    THEN [m EXCEPT !.contact[1].host = ToString(c.remoteEndPoint)]
                    ELSE m
          IN Done(m1, <<SendResponse>>)
     ELSE Done(m, <<SendResponse>>)

\* Lines 79-92: the script pops the proxy's Via itself and picks the socket
\* to send from.  cnSIPEndPoint is assigned only when the Via has a cn
\* parameter; otherwise the name keeps what the scope held before the run
\* (c.staleBound, c.stale).
AppServerResponse(m0, c) ==
  LET proxyVia == TopViaHeader(m0)
      m == PopTopViaHeader(m0)
      cn == ParamGet(proxyVia.params, "cn")
      assigned == cn # None
      cnSIPEndPoint == IF assigned THEN OptString(c.channel) ELSE c.stale
      m1 == [m EXCEPT !.localSIPEndPoint = IF assigned THEN cnSIPEndPoint ELSE None]
  IN IF m1.method = "REGISTER"
     THEN IF ToString(c.remoteEndPoint) # m_registrarSocket
          THEN Done(PushViaHeader(m1, SIPViaHeader(ParseSIPEndPoint(m_regAgentSocket),
                                                   proxyVia.branch)),
                    <<SendResponse>>)
          ELSE Done(m1, <<SendResponse>>)
     ELSE IF m1.method = "INVITE"
     THEN LET m2 == IF HasContact(m1)
                    THEN [m1 EXCEPT !.contact[1].host = SocketToString(c.remoteEndPoint)]
                    ELSE m1
          IN IF assigned \/ c.staleBound
             THEN Done(m2, <<SendResponseFrom(ToString(c.localEndPoint), cnSIPEndPoint)>>)
             ELSE Raise(m2, <<>>, "NameError")
     ELSE Done(m1, <<SendResponse>>)

\* The host calls SendExternalResponse makes (proxyscript-local.py).
SendExternalResponseLocal(sendFromSIPEndPoint, publicIP, c) ==
  LET dest == ResolveEndPoint(c)
  IN IF dest = None
     THEN <<Log("The destination could not be resolved for a SIP response."),
            Log("resp.ToString()")>>
     ELSE IF IsLocalNetDestinationLocal(dest[1])
     THEN <<SendExternalResponseCall(sendFromSIPEndPoint, None)>>
     ELSE <<SendExternalResponseCall(sendFromSIPEndPoint, publicIP)>>

LocalResponse(m, c) ==
  LET topVia == c.topVia[1]
  IN IF m.method = "REGISTER" /\ ToString(c.remoteEndPoint) = m_registrarSocket
     THEN Done(m, <<SendExternalResponseCall(c.outSocket, None)>>)
     ELSE IF m.method = "REGISTER"
     THEN Done(m, <<SendTransparentResponse(m_proxySocketLoopback, m_regAgentSocket,
                                            topVia.branch)>>)
     ELSE IF m.method = "NOTIFY" \/ m.method = "SUBSCRIBE"
     THEN IF ~IsFromNotifierServer(c) /\ ~IsFromApplicationServer(c)
          THEN Done(m, <<SendInternalResponse(c.outSocket)>>)
          ELSE Done(m, SendExternalResponseLocal(c.outSocket, c.publicip, c))
     ELSE IF IsFromApplicationServer(c)
     THEN Done(m, SendExternalResponseLocal(c.outSocket, c.publicip, c))
     ELSE IF \/ EnumToString(SIPMethodsEnum(m.method)) = PyStr("ACK")
             \/ EnumToString(SIPMethodsEnum(m.method)) = PyStr("CANCEL")
             \/ EnumToString(SIPMethodsEnum(m.method)) = PyStr("INVITE")
     THEN LET looked == c.dispatcher
              dispatcherEndPoint == IF looked = None THEN GetAppServerLocal
                                    ELSE OptString(looked)
          IN Done(m, <<SendTransparentResponse(m_proxySocketInternal("ProxyLocal"),
                                               dispatcherEndPoint, topVia.branch)>>)
     ELSE Done(m, <<SendInternalResponse(m_proxySocketInternal("ProxyLocal"))>>)

\* The host calls SendExternalResponse makes (proxyscript.py).
SendExternalResponseExample(sendFromSIPEndPoint, publicIP, c) ==
  LET dest == ResolveEndPoint(c)
  IN IF dest = None
     THEN <<Log("The destination could not be resolved for a SIP response."),
            Log("resp.ToString()")>>
     ELSE IF IsLocalNetDestinationExample(dest[1])
     THEN <<SendExternalResponseCall(sendFromSIPEndPoint, None)>>
     ELSE <<SendExternalResponseCall(sendFromSIPEndPoint, publicIP)>>

CallSendExternalResponseExample(m, sendFromSIPEndPoint, publicIP, c) ==
  IF c.defsBound
  THEN Done(m, SendExternalResponseExample(sendFromSIPEndPoint, publicIP, c))
  ELSE Raise(m, <<>>, "NameError")

\* Lines 93-96 read dispatcherEndPoint, a name the response block never
\* assigns: it holds what the scope held before the run (c.staleBound,
\* c.stale), and reading it unbound ends the run with a NameError.
ExampleResponse(m, c) ==
  LET topVia == c.topVia[1]
  IN IF m.method = "REGISTER" /\ ToString(c.remoteEndPoint) = m_registrarSocket
     THEN Done(m, <<SendExternalResponseCall(c.outSocket, None)>>)
     ELSE IF m.method = "REGISTER"
     THEN Done(m, <<SendTransparentResponse(m_proxySocketInternal("ProxyExample"),
                                            m_regAgentSocket, topVia.branch)>>)
     ELSE IF m.method = "NOTIFY" \/ m.method = "SUBSCRIBE"
     THEN IF ToString(c.remoteEndPoint) # m_notifierSocket("ProxyExample")
             /\ ~c.isFromAppServer
          THEN Done(m, <<SendInternalResponse(c.outSocket)>>)
          ELSE CallSendExternalResponseExample(m, c.outSocket, c.publicip, c)
     ELSE IF c.isFromAppServer
     THEN CallSendExternalResponseExample(m, c.outSocket, c.publicip, c)
     ELSE IF \/ EnumToString(SIPMethodsEnum(m.method)) = PyStr("ACK")
             \/ EnumToString(SIPMethodsEnum(m.method)) = PyStr("CANCEL")
             \/ EnumToString(SIPMethodsEnum(m.method)) = PyStr("INVITE")
     THEN IF ~c.staleBound
          THEN Raise(m, <<>>, "NameError")
          ELSE LET dstEndPoint == IF c.stale = None THEN OptString(c.appServer)
                                  ELSE OptString(c.dispatcher)
               IN Done(m, <<SendTransparentResponse(m_proxySocketInternal("ProxyExample"),
                                                    dstEndPoint, topVia.branch)>>)
     ELSE Done(m, <<SendInternalResponse(m_proxySocketInternal("ProxyExample"))>>)

\* ---------------------------------------------------------------- actions

\* A socket that is none of the proxy's own.
ForeignSocket == EP("udp", <<"192", "0", "2", "99">>, "5060")

\* What the names a script reads without assigning can hold when a run
\* starts: <<defsBound, staleBound, stale>>.  A fresh scope binds nothing; a
\* scope kept from an earlier run holds the definitions and whatever that run
\* assigned.
Scopes(s, request) ==
  CASE s = "ProxyExample" /\ request -> {<<FALSE, FALSE, None>>, <<TRUE, FALSE, None>>}
    [] s = "ProxyExample" /\ ~request ->
         {<<FALSE, FALSE, None>>, <<TRUE, FALSE, None>>, <<TRUE, TRUE, None>>,
          <<TRUE, TRUE, ToString(DispatcherInstance)>>}
    [] s = "SIPAppServer" /\ ~request ->
         {<<FALSE, FALSE, None>>, <<FALSE, TRUE, None>>,
          <<FALSE, TRUE, m_proxyExternalSocket>>}
    [] OTHER -> {<<FALSE, FALSE, None>>}

\* The transport hands a parsed response and its routing context to the
\* script.  Except in the SIPAppServer deployment, whose script pops the Via
\* itself, the context holds the popped top Via.
DeliverResponse ==
  /\ pc = "idle"
  /\ \E method \in Methods, remote \in RemoteEndPoints(script),
        local \in LocalSockets(script), out \in LocalSockets(script),
        depth \in 1..MaxVias,
        sentBy \in {ParseSIPEndPoint(x) : x \in LocalSockets(script)} \cup {ForeignSocket},
        cn \in BOOLEAN, known \in BOOLEAN,
        lookup \in {l \in LookupResults(script) : ~l.Pending /\ l.LookupError = None},
        key \in MessageKeys(script, affinity), avail \in BOOLEAN,
        scope \in Scopes(script, FALSE), tagged \in BOOLEAN :
       \E contact \in {<<>>, <<PrivateContact>>} :
         LET top == Via(sentBy, AgentBranch,
                        IF cn THEN [cn |-> <<"ch1">>] ELSE NoParams)
             stack == IF tagged THEN <<top>> \o TaggedUpstream(depth - 1, local)
                      ELSE <<top>> \o Upstream(depth - 1)
             popped == script # "SIPAppServer"
             m == [BlankMsg EXCEPT
                     !.method = method, !.toTag = <<"totag-1">>,
                     !.vias = IF popped THEN Tail(stack) ELSE stack,
                     !.contact = contact, !.userAgent = "X-Lite",
                     !.localSIPEndPoint = local, !.key = key]
             disp == DispatcherLookup(affinity, m)
         IN /\ ~AsksAppServer(script, FALSE, method, remote, disp) => avail
            /\ (disp # None) => avail
            /\ (script = "ProxyExample" /\ ~CallsLateDefinition(script, method, remote))
                 => (scope[1] = scope[2])
            /\ ~ReadsUnassigned(script, method, remote, cn) => ~scope[2]
            /\ ~Resolving(script, remote) => lookup = Lookup(FALSE, None, None)
            /\ (script # "SIPAppServer") => (~cn /\ ~known)
            /\ tagged => (depth >= 2 /\ TagsVia(script, method))
            /\ known => cn
            /\ (method # "INVITE" /\ contact # <<>>) =>
                 (depth = 1 /\ out = local /\ sentBy = ParseSIPEndPoint(local))
            /\ arrived' = [m EXCEPT !.vias = stack]
            /\ msg' = m
            /\ ctx' = [BlankCtx EXCEPT
                         !.remoteEndPoint = remote,
                         !.localEndPoint = ParseSIPEndPoint(local),
                         !.publicip = PublicIP,
                         !.lookup = lookup,
                         !.dispatcher = disp,
                         !.appServer = IF avail THEN <<HostAppServer>> ELSE None,
                         !.isFromAppServer = (remote = HostAppServer),
                         !.topVia = IF popped THEN <<top>> ELSE None,
                         !.outSocket = out,
                         !.defsBound = scope[1],
                         !.staleBound = scope[2],
                         !.stale = scope[3],
                         !.channel = IF known THEN <<ParseSIPEndPoint(local)>> ELSE None]
  /\ isreq' = FALSE
  /\ pc' = "ready"
  /\ calls' = <<>>
  /\ err' = ""
  /\ UNCHANGED <<script, affinity, tasks, app>>


\* The table as it would stay if no dispatch were ever recorded.
RecordDispatch_Never(table, m, cs, s) == table

\* The host records the dispatch when a send hands a dialog-establishing
\* request that carries a key to an application-server instance.
RecordDispatch(table, m, cs, s) ==
  LET sent == {x \in Dispatched(s) :
                 \E i \in DOMAIN cs : cs[i].op = "SendInternal" /\ cs[i].dest = ToString(x)}
  IN IF DialogEstablishing(m) /\ m.key # None /\ sent # {}
     THEN DispatcherRecord(table, m.key[1], CHOOSE x \in sent : TRUE)
     ELSE table

\* Another writer of the shared table (a second worker, or the dispatcher's
\* own registry) records the key for an instance.
RecordElsewhere ==
  /\ pc = "idle"
  /\ \E k \in CorrelationKeys, x \in Dispatched(script) :
       affinity' = DispatcherRecord(affinity, k, x)
  /\ UNCHANGED <<script, pc, isreq, ctx, arrived, msg, calls, err, tasks, app>>

\* One run of the deployment's script on the delivered message.
Apply(r) ==
  /\ msg' = r.msg
  /\ calls' = r.calls
  /\ err' = r.err
  /\ pc' = "done"
  /\ UNCHANGED <<script, isreq, ctx, arrived, tasks, app>>

AllInOneRouteRequest ==
  /\ pc = "ready" /\ isreq /\ script = "AllInOne"
  /\ Apply(AllInOneRequest(msg, ctx))
  /\ UNCHANGED affinity

AppServerRouteRequest ==
  /\ pc = "ready" /\ isreq /\ script = "SIPAppServer"
  /\ Apply(AppServerRequest(msg, ctx))
  /\ UNCHANGED affinity

LocalRouteRequest ==
  /\ pc = "ready" /\ isreq /\ script = "ProxyLocal"
  /\ Apply(LocalRequest(msg, ctx))
  /\ affinity' = RecordDispatch(affinity, msg, LocalRequest(msg, ctx).calls, script)

ExampleRouteRequest ==
  /\ pc = "ready" /\ isreq /\ script = "ProxyExample"
  /\ Apply(ExampleRequest(msg, ctx))
  /\ affinity' = RecordDispatch(affinity, msg, ExampleRequest(msg, ctx).calls, script)

AllInOneRouteResponse ==
  /\ pc = "ready" /\ ~isreq /\ script = "AllInOne"
  /\ Apply(AllInOneResponse(msg, ctx))
  /\ UNCHANGED affinity

AppServerRouteResponse ==
  /\ pc = "ready" /\ ~isreq /\ script = "SIPAppServer"
  /\ Apply(AppServerResponse(msg, ctx))
  /\ UNCHANGED affinity

LocalRouteResponse ==
  /\ pc = "ready" /\ ~isreq /\ script = "ProxyLocal"
  /\ Apply(LocalResponse(msg, ctx))
  /\ UNCHANGED affinity

ExampleRouteResponse ==
  /\ pc = "ready" /\ ~isreq /\ script = "ProxyExample"
  /\ Apply(ExampleResponse(msg, ctx))
  /\ UNCHANGED affinity

\* The transport has carried out the calls; the routing context is discarded.
Complete ==
  /\ pc = "done"
  /\ pc' = "idle"
  /\ isreq' = TRUE
  /\ ctx' = BlankCtx
  /\ arrived' = BlankMsg
  /\ msg' = BlankMsg
  /\ calls' = <<>>
  /\ err' = ""
  /\ UNCHANGED <<script, affinity, tasks, app>>

Next ==
  \/ DeliverRequest
  \/ AllInOneRouteRequest
  \/ AppServerRouteRequest
  \/ LocalRouteRequest
  \/ ExampleRouteRequest
  \/ DeliverResponse
  \/ AllInOneRouteResponse
  \/ AppServerRouteResponse
  \/ LocalRouteResponse
  \/ ExampleRouteResponse
  \/ RecordElsewhere
  \/ Complete

Spec == Init /\ [][Next]_vars

TypeOK == pc \in {"idle", "ready", "done"}

\* ---------------------------------------------------------------- worker tasks

\* The messages the worker tasks route, all of one dialog.
TaskMethods == {"INVITE", "BYE", "NOTIFY"}

TaskRemotes == {ExternalUA, ParseSIPEndPoint(m_appServerSocket("ProxyLocal"))}

TaskLookups == {Lookup(FALSE, None, <<PublicNetDest>>), Lookup(TRUE, None, None)}

TaskRequest(method, remote, tag) ==
  [BlankMsg EXCEPT
     !.method = method, !.toTag = tag,
     !.vias = <<Via(remote, AgentBranch, NoParams)>>,
     !.recordRoutes = <<ExistingRecordRoute>>,
     !.maxForwards = MaxHops, !.userAgent = "X-Lite",
     !.uriHost = "callee.example.com",
     !.localSIPEndPoint = m_proxySocketInternal("ProxyLocal"),
     !.key = <<"call-1">>]

TaskResponse(method) ==
  [BlankMsg EXCEPT
     !.method = method, !.toTag = <<"totag-1">>,
     !.vias = <<UpstreamVia>>, !.userAgent = "X-Lite",
     !.localSIPEndPoint = m_proxySocketInternal("ProxyLocal"),
     !.key = <<"call-1">>]

TaskContext(request, remote, lookup) ==
  [BlankCtx EXCEPT
     !.remoteEndPoint = remote,
     !.localEndPoint = ParseSIPEndPoint(m_proxySocketInternal("ProxyLocal")),
     !.proxyBranch = IF request THEN ProxyBranch ELSE "",
     !.publicip = PublicIP,
     !.lookup = lookup,
     !.appServer = <<HostAppServer>>,
     !.topVia = IF request THEN None
                ELSE <<Via(ParseSIPEndPoint(m_proxySocketInternal("ProxyLocal")),
                           AgentBranch, NoParams)>>,
     !.outSocket = IF request THEN None ELSE m_proxySocketInternal("ProxyLocal")]

\* The runs of proxyscript-local.py that call sys.DispatcherLookup (lines 126
\* and 167).
LooksUp(t) ==
  /\ ~IsFromApplicationServer(t.ctx)
  /\ IF t.isreq THEN t.arrived.method \notin {"REGISTER", "SUBSCRIBE", "NOTIFY"}
     ELSE t.arrived.method \in {"ACK", "CANCEL", "INVITE"}

\* A host that would run every invocation in one scope.
TaskScope_Shared(w) == CHOOSE x \in Workers : TRUE

\* The scope that holds the names an invocation assigns: its own.
TaskScope(w) == w

\* The transport hands a message and its routing context to a worker task.
TaskReceive(w) ==
  /\ tasks[w].pos = "idle"
  /\ \E request \in BOOLEAN, method \in TaskMethods, remote \in TaskRemotes,
        tag \in {None, <<"totag-1">>}, lookup \in TaskLookups :
       LET m == IF request THEN TaskRequest(method, remote, tag) ELSE TaskResponse(method)
       IN /\ ~request => (tag = <<"totag-1">> /\ ~lookup.Pending)
          /\ ~Resolving(script, remote) => lookup = Lookup(FALSE, None, <<PublicNetDest>>)
          /\ tasks' = [tasks EXCEPT ![w] =
                         [IdleTask EXCEPT !.pos = "ready", !.isreq = request,
                                          !.arrived = m, !.msg = m,
                                          !.ctx = TaskContext(request, remote, lookup),
                                          !.dispatcherEndPoint =
                                              tasks[w].dispatcherEndPoint]]
  /\ UNCHANGED <<script, pc, isreq, ctx, arrived, msg, calls, err, affinity, app>>

\* dispatcherEndPoint = sys.DispatcherLookup(...): the task reads the table
\* as it is now.
TaskLookup(w) ==
  /\ tasks[w].pos = "ready"
  /\ LooksUp(tasks[w])
  /\ LET answer == DispatcherLookup(affinity, tasks[w].arrived)
     IN tasks' = [tasks EXCEPT ![w].pos = "looked", ![w].looked = answer,
                               ![TaskScope(w)].dispatcherEndPoint = answer]
  /\ UNCHANGED <<script, pc, isreq, ctx, arrived, msg, calls, err, affinity, app>>

\* The rest of the run: the script decides with the names its scope holds and
\* makes its host calls, and the host records a dispatch.
TaskRoute(w) ==
  /\ \/ tasks[w].pos = "looked"
     \/ tasks[w].pos = "ready" /\ ~LooksUp(tasks[w])
  /\ LET t == tasks[w]
         c == [t.ctx EXCEPT !.dispatcher =
                 IF LooksUp(t) THEN tasks[TaskScope(w)].dispatcherEndPoint ELSE None]
         r == IF t.isreq THEN LocalRequest(t.msg, c) ELSE LocalResponse(t.msg, c)
     IN /\ tasks' = [tasks EXCEPT ![w].pos = "done", ![w].outcome = r]
        /\ affinity' = IF t.isreq THEN RecordDispatch(affinity, t.msg, r.calls, script)
                       ELSE affinity
  /\ UNCHANGED <<script, pc, isreq, ctx, arrived, msg, calls, err, app>>

\* The transport has carried out the task's calls.
TaskComplete(w) ==
  /\ tasks[w].pos = "done"
  /\ tasks' = [tasks EXCEPT ![w] =
                 [IdleTask EXCEPT !.dispatcherEndPoint = tasks[w].dispatcherEndPoint]]
  /\ UNCHANGED <<script, pc, isreq, ctx, arrived, msg, calls, err, affinity, app>>

ConcurrentInit == Init /\ script = "ProxyLocal"

ConcurrentNext ==
  \/ \E w \in Workers :
       \/ TaskReceive(w)
       \/ TaskLookup(w)
       \/ TaskRoute(w)
       \/ TaskComplete(w)
  \/ RecordElsewhere

ConcurrentSpec == ConcurrentInit /\ [][ConcurrentNext]_vars

\* ---------------------------------------------------------------- console text

\* Text is a sequence of characters.  Alphabet lists the characters of the
\* model in the order of their character codes.
Alphabet == <<"\n", ".", "A", "B", "C", "_", "a", "b", "c", "x">>

Ord(ch) == CHOOSE i \in DOMAIN Alphabet : Alphabet[i] = ch

\* str.lower, character by character.
LowerChar(ch) ==
  CASE ch = "A" -> "a"
    [] ch = "B" -> "b"
    [] ch = "C" -> "c"
    [] OTHER -> ch

Lower(text) == [i \in DOMAIN text |-> LowerChar(text[i])]

Min2(x, y) == IF x < y THEN x ELSE y

Max2(x, y) == IF x > y THEN x ELSE y

\* The Python slice text[a:b] for a, b >= 0.
Slice(text, a, b) == SubSeq(text, a + 1, Min2(b, Len(text)))

StartsWithText(text, prefix) ==
  /\ Len(prefix) <= Len(text)
  /\ SubSeq(text, 1, Len(prefix)) = prefix

\* ---------------------------------------------------------------- CompletionList

\* The most entries the list shows at once (n = min(8, len(entries))).
MaxVisible == 8

\* The longest list of items handed to Make.
MaxEntries == 12

Letters == <<"a", "B", "c">>

RECURSIVE Repeat(_, _)
Repeat(ch, n) == IF n <= 0 THEN <<>> ELSE <<ch>> \o Repeat(ch, n - 1)

\* The items handed to Make: a, B, c, aa, Ba, ca, aaa, ...
Item(i) == <<Letters[((i - 1) % 3) + 1]>> \o Repeat("a", (i - 1) \div 3)

Items(n) == [i \in 1..n |-> Item(i)]

SelectionIndexes == (0 - 2)..(MaxEntries + 1)

SelectionOffsets == {0 - 3, 0 - 1, 1, 3}

FindTexts == {<<>>, <<"b">>, <<"C", "A">>, <<"b", "a", "a", "a">>, <<"x">>}

CompletionList_Make(cl, items) ==
  [cl EXCEPT !.box = TRUE, !.entries = items, !.topIndex = 0,
             !.visibleEntries = Min2(MaxVisible, Len(items)),
             !.selectedIndex = 0]

\* SetSelection as it would be without the two window adjustments.
CompletionList_SetSelection_NoScroll(cl, index) ==
  [cl EXCEPT !.selectedIndex = Min2(Max2(index, 0), Len(cl.entries) - 1)]

CompletionList_SetSelection(cl, index) ==
  LET selectedIndex == Min2(Max2(index, 0), Len(cl.entries) - 1)
      topIndex == IF selectedIndex < cl.topIndex THEN selectedIndex ELSE cl.topIndex
      below == topIndex + cl.visibleEntries - 1 - selectedIndex
  IN [cl EXCEPT !.selectedIndex = selectedIndex,
                !.topIndex = IF below < 0 THEN topIndex - below ELSE topIndex]

CompletionList_MoveSelection(cl, offset) ==
  CompletionList_SetSelection(cl, cl.selectedIndex + offset)

CompletionList_FindSelection(cl, text) ==
  LET ltext == Lower(text)
      found == {index \in 0..(Len(cl.entries) - 1) :
                  StartsWithText(Lower(cl.entries[index + 1]), ltext)}
  IN IF found = {} THEN cl
     ELSE CompletionList_SetSelection(cl, CHOOSE index \in found :
                                             \A other \in found : index <= other)

\* The variables of the routing model, which the console leaves alone.
routing == <<script, pc, isreq, ctx, arrived, msg, calls, err, affinity, tasks>>

ConsoleInit == Init /\ script = "AllInOne"

Make ==
  /\ \E n \in 0..MaxEntries :
       app' = [app EXCEPT !.CompletionList = CompletionList_Make(@, Items(n))]
  /\ UNCHANGED routing

SetSelection ==
  /\ app.CompletionList.box
  /\ \E index \in SelectionIndexes :
       app' = [app EXCEPT !.CompletionList = CompletionList_SetSelection(@, index)]
  /\ UNCHANGED routing

MoveSelection ==
  /\ app.CompletionList.box
  /\ \E offset \in SelectionOffsets :
       app' = [app EXCEPT !.CompletionList = CompletionList_MoveSelection(@, offset)]
  /\ UNCHANGED routing

FindSelection ==
  /\ app.CompletionList.box
  /\ \E text \in FindTexts :
       app' = [app EXCEPT !.CompletionList = CompletionList_FindSelection(@, text)]
  /\ UNCHANGED routing

CompletionNext ==
  \/ Make
  \/ SetSelection
  \/ MoveSelection
  \/ FindSelection

CompletionSpec == ConsoleInit /\ [][CompletionNext]_vars

\* ---------------------------------------------------------------- Editor

\* The most lines of the input, and the most columns of a line.
MaxLines == 3

MaxColumns == 2

\* text.split('\n')
RECURSIVE Split(_)
Split(text) ==
  IF \A i \in DOMAIN text : text[i] # "\n" THEN <<text>>
  ELSE LET i == CHOOSE k \in DOMAIN text :
                  text[k] = "\n" /\ \A j \in 1..(k - 1) : text[j] # "\n"
       IN <<SubSeq(text, 1, i - 1)>> \o Split(SubSeq(text, i + 1, Len(text)))

\* '\n'.join(lines)
RECURSIVE Join(_)
Join(texts) ==
  IF texts = <<>> THEN <<>>
  ELSE IF Len(texts) = 1 THEN texts[1]
  ELSE texts[1] \o <<"\n">> \o Join(Tail(texts))

CodeLine_InsertText(text, column, new) ==
  Slice(text, 0, column) \o new \o Slice(text, column, Len(text))

CodeLine_DeleteRange(text, start, end) ==
  IF start >= end THEN text
  ELSE Slice(text, 0, start) \o Slice(text, end, Len(text))

CodeLine_DeleteToColumn(text, column) ==
  IF column >= Len(text) THEN text ELSE Slice(text, 0, column)

\* The width the host measures for a text drawn in the input style: every
\* character is one unit wide.
ActualWidth(text) == Len(text)

\* SimpleLine.gutterWidth as SimpleLine.__init__ sets it.
gutterWidth == 0

\* The x of SimpleLine.GetPosition(column).
SimpleLine_GetPosition(text, column) ==
  IF column = 0 THEN gutterWidth
  ELSE IF column < Len(text) THEN ActualWidth(Slice(text, 0, column)) + gutterWidth
  ELSE ActualWidth(text) + gutterWidth

\* The loop returns at the first column whose left edge cs is at or beyond x;
\* when it ends without returning, col is the last column it visited (0 for
\* an empty text).
SimpleLine_GetColumnFromPosition(text, x) ==
  LET cs(col) == ActualWidth(Slice(text, 0, col)) + gutterWidth
      reached == {col \in 0..(Len(text) - 1) : cs(col) >= x}
  IN IF reached # {}
     THEN LET col == CHOOSE c \in reached : \A other \in reached : c <= other
          IN IF cs(col) = x THEN col
             ELSE IF col > 0 /\ (x - cs(col - 1)) < (cs(col) - x) THEN col - 1
             ELSE col
     ELSE LET col == Max2(Len(text) - 1, 0)
          IN IF x < ActualWidth(text) + gutterWidth THEN col ELSE col + 1

Caret_GetLine(a) == a.lines[a.Caret.line + 1]

\* Caret.Move: the console after the move, and the value returned.
Caret_Move(a, offset) ==
  LET column == a.Caret.column + offset
      line == a.Caret.line
  IN IF column < 0
     THEN IF line = 0
          THEN [app |-> [a EXCEPT !.Caret.column = 0], ret |-> FALSE]
          ELSE [app |-> [a EXCEPT !.Caret.line = line - 1,
                                  !.Caret.column = Len(a.lines[line])],
                ret |-> TRUE]
     ELSE IF column > Len(Caret_GetLine(a))
     THEN IF line >= Len(a.lines) - 1
          THEN [app |-> [a EXCEPT !.Caret.column = Len(Caret_GetLine(a))],
                ret |-> FALSE]
          ELSE [app |-> [a EXCEPT !.Caret.line = line + 1, !.Caret.column = 0],
                ret |-> TRUE]
     ELSE [app |-> [a EXCEPT !.Caret.column = column], ret |-> TRUE]

Caret_MoveLine(a, offset) ==
  LET x == SimpleLine_GetPosition(Caret_GetLine(a), a.Caret.column)
      moved == a.Caret.line + offset
      line == IF moved < 0 THEN 0
              ELSE IF moved >= Len(a.lines) THEN Len(a.lines) - 1
              ELSE moved
  IN [a EXCEPT !.Caret.line = line,
               !.Caret.column = SimpleLine_GetColumnFromPosition(a.lines[line + 1], x)]

\* row is top_line + int(y / spacing).
Caret_FromScreenPosition(a, x, row) ==
  LET line == IF row < 0 THEN 0
              ELSE IF row >= Len(a.lines) THEN Len(a.lines) - 1
              ELSE row
  IN <<line, SimpleLine_GetColumnFromPosition(a.lines[line + 1], x)>>

Caret_DeleteSelection(a) ==
  IF a.Caret.toPosition = None THEN a
  ELSE LET swap == \/ a.Caret.toPosition[1] < a.Caret.line
                   \/ /\ a.Caret.toPosition[1] = a.Caret.line
                      /\ a.Caret.toPosition[2] < a.Caret.column
           l0 == IF swap THEN a.Caret.toPosition[1] ELSE a.Caret.line
           c0 == IF swap THEN a.Caret.toPosition[2] ELSE a.Caret.column
           l1 == IF swap THEN a.Caret.line ELSE a.Caret.toPosition[1]
           c1 == IF swap THEN a.Caret.column ELSE a.Caret.toPosition[2]
           first == a.lines[l0 + 1]
           last == a.lines[l1 + 1]
           merged == CodeLine_DeleteRange(first, c0, Len(first))
                       \o CodeLine_DeleteRange(last, 0, c1)
       IN [a EXCEPT !.Caret.line = l0, !.Caret.column = c0,
                    !.Caret.toPosition = None,
                    !.lines = IF l0 = l1
                              THEN [a.lines EXCEPT ![l0 + 1] =
                                      CodeLine_DeleteRange(first, c0, c1)]
                              ELSE SubSeq(a.lines, 1, l0) \o <<merged>>
                                     \o SubSeq(a.lines, l1 + 2, Len(a.lines))]

\* Editor.InsertText once the selection is deleted.
Editor_InsertAtCaret(a, text) ==
  LET parts == Split(text)
      line == a.Caret.line
      column == a.Caret.column
      inserted == CodeLine_InsertText(Caret_GetLine(a), column, parts[1])
  IN IF Len(parts) > 1
     THEN LET start == column + Len(parts[1])
              extra == Slice(inserted, start, Len(inserted))
              kept == CodeLine_DeleteRange(inserted, start, Len(inserted))
          IN [a EXCEPT !.lines = SubSeq(a.lines, 1, line) \o <<kept>>
                                   \o SubSeq(parts, 2, Len(parts) - 1)
                                   \o <<parts[Len(parts)] \o extra>>
                                   \o SubSeq(a.lines, line + 2, Len(a.lines)),
                       !.Caret.line = line + Len(parts) - 1,
                       !.Caret.column = Len(parts[Len(parts)])]
     ELSE [a EXCEPT !.lines[line + 1] = inserted,
                    !.Caret.column = column + Len(parts[1])]

Editor_InsertText(a, text) == Editor_InsertAtCaret(Caret_DeleteSelection(a), text)

\* Editor.Backspace once the caret has tried to move back: moved is what
\* Caret.Move answered.
Editor_DeleteMoved(moved) ==
  IF ~moved.ret THEN [moved.app EXCEPT !.Caret.toPosition = None]
  ELSE Caret_DeleteSelection(moved.app)

Editor_Backspace(a, count) ==
  IF a.Caret.toPosition = None
  THEN Editor_DeleteMoved(
         Caret_Move([a EXCEPT !.Caret.toPosition = <<a.Caret.line, a.Caret.column>>],
                    0 - count))
  ELSE Caret_DeleteSelection(a)

Editor_Delete(a, count) ==
  IF a.Caret.toPosition # None THEN Caret_DeleteSelection(a)
  ELSE [a EXCEPT !.lines[a.Caret.line + 1] =
          CodeLine_DeleteRange(@, a.Caret.column, a.Caret.column + count)]

\* TextBuffer.ClearText with UpdateCaret: the caret goes to the end of the
\* last line, which is the one line kept.
TextBuffer_ClearText(a) ==
  LET kept == <<CodeLine_DeleteToColumn(a.lines[1], 0)>>
  IN [a EXCEPT !.lines = kept,
               !.Caret = [line |-> Len(kept) - 1, column |-> Len(kept[Len(kept)]),
                          toPosition |-> None]]

TextBuffer_GetText(a) == Join(a.lines)

\* The input holds no more than the model's bounds allow.
Fits(a) ==
  /\ Len(a.lines) <= MaxLines
  /\ \A i \in DOMAIN a.lines : Len(a.lines[i]) <= MaxColumns

InsertTexts ==
  {<<"a">>, <<"a", "a">>, <<"\n">>, <<"a", "\n", "a">>, <<"\n", "a", "\n">>}

Counts == {1, 2}

MoveOffsets == {0 - 2, 0 - 1, 1, 2}

MouseColumns == 0..(MaxColumns + 1)

MouseRows == (0 - 1)..MaxLines

InsertText ==
  /\ \E text \in InsertTexts :
       /\ Fits(Editor_InsertText(app, text))
       /\ app' = Editor_InsertText(app, text)
  /\ UNCHANGED routing

Backspace ==
  /\ \E count \in Counts : app' = Editor_Backspace(app, count)
  /\ UNCHANGED routing

Delete ==
  /\ \E count \in Counts : app' = Editor_Delete(app, count)
  /\ UNCHANGED routing

Move ==
  /\ \E offset \in MoveOffsets : app' = Caret_Move(app, offset).app
  /\ UNCHANGED routing

Up ==
  /\ app' = Caret_MoveLine(app, 0 - 1)
  /\ UNCHANGED routing

Down ==
  /\ app' = Caret_MoveLine(app, 1)
  /\ UNCHANGED routing

ClearText ==
  /\ app' = TextBuffer_ClearText(app)
  /\ UNCHANGED routing

DeleteSelection ==
  /\ app' = Caret_DeleteSelection(app)
  /\ UNCHANGED routing

\* TextBuffer.OnClick: the caret is set from the mouse position and a drag
\* begins.
OnClick ==
  /\ \E x \in MouseColumns, row \in MouseRows :
       LET p == Caret_FromScreenPosition(app, x, row)
       IN app' = [app EXCEPT !.Caret = [line |-> p[1], column |-> p[2],
                                        toPosition |-> None],
                             !.dragging = TRUE]
  /\ UNCHANGED routing

CancelDrag ==
  /\ app' = [app EXCEPT !.dragging = FALSE]
  /\ UNCHANGED routing

\* TextBuffer.OnMouseMove with Caret.SelectToScreenPosition.
OnMouseMove ==
  /\ \E x \in MouseColumns, row \in MouseRows :
       LET p == Caret_FromScreenPosition(app, x, row)
       IN app' = IF ~app.dragging THEN app
                 ELSE [app EXCEPT !.Caret.toPosition =
                         IF p[1] # app.Caret.line \/ p[2] # app.Caret.column
                         THEN p ELSE None]
  /\ UNCHANGED routing

EditorNext ==
  \/ InsertText
  \/ Backspace
  \/ Delete
  \/ Move
  \/ Up
  \/ Down
  \/ ClearText
  \/ DeleteSelection
  \/ OnClick
  \/ CancelDrag
  \/ OnMouseMove

EditorSpec == ConsoleInit /\ [][EditorNext]_vars

\* ---------------------------------------------------------------- keys

\* The most entries the history holds, and the most lines of console input.
MaxHistory == 2

MaxInputLines == 1

\* The most characters the completion list holds as its input.
MaxPending == 2

\* The tabs of the TabPanel that are selected: children[0] is the console and
\* children[3] the about box.
ConsoleTab == 0

AboutTab == 3

Tabs == {ConsoleTab, AboutTab}

\* The key presses MakeKeyPress makes (Ctrl and Shift not held), and None for
\* a key it does not recognise.
Key(name, text) == [Name |-> name, Text |-> text, Ctrl |-> FALSE]

Keys ==
  {Key("\n", <<"\n">>), Key("a", <<"a">>), Key(".", <<".">>),
   Key("Up", None), Key("Down", None),
   Key("Backspace", None), Key("Escape", None), Key("Shift", None)}

KeyPresses == {None} \cup {<<key>> : key \in Keys}

\* What GetMemberNames answers for the expression before the dot.
MemberLists == {None, <<<<"a", "a">>, <<"_", "a">>, <<"a">>>>, <<<<"_", "a">>>>}

\* str.isalnum and str.strip over the characters of the model.
IsAlnum(text) ==
  /\ text # <<>>
  /\ \A i \in DOMAIN text : text[i] \notin {"\n", ".", "_"}

IsBlank(text) == \A i \in DOMAIN text : text[i] = "\n"

\* The engine's answers: a text is an expression when it is names joined by
\* single dots, and code is complete when each of its lines is empty or an
\* expression.
IsExpression(text) ==
  /\ text # <<>>
  /\ text[1] # "." /\ text[Len(text)] # "."
  /\ \A i \in DOMAIN text : text[i] # "\n"
  /\ \A i \in 1..(Len(text) - 1) : ~(text[i] = "." /\ text[i + 1] = ".")

LanguageEngine_TryExpression(text) == IsExpression(text)

ConsoleInput_IsComplete(text) ==
  \A i \in DOMAIN Split(text) : Split(text)[i] = <<>> \/ IsExpression(Split(text)[i])

\* cmp(str.lower(s), str.lower(t)) < 0
RECURSIVE LowerBefore(_, _)
LowerBefore(s, t) ==
  IF s = <<>> THEN t # <<>>
  ELSE IF t = <<>> THEN FALSE
  ELSE IF LowerChar(s[1]) # LowerChar(t[1])
  THEN Ord(LowerChar(s[1])) < Ord(LowerChar(t[1]))
  ELSE LowerBefore(Tail(s), Tail(t))

\* items.sort(cmp, str.lower): a stable sort.
RECURSIVE SortLower(_)
SortLower(items) ==
  IF items = <<>> THEN <<>>
  ELSE LET rest == SortLower(Tail(items))
           before == {i \in DOMAIN rest : LowerBefore(rest[i], Head(items))}
       IN SubSeq(rest, 1, Cardinality(before)) \o <<Head(items)>>
            \o SubSeq(rest, Cardinality(before) + 1, Len(rest))

NoUnderscore(item) == \A i \in DOMAIN item : item[i] # "_"

\* A HandleKey call is noted with what held when it was made.
Delivered(a, to) ==
  [a EXCEPT !.delivered = Append(@, [to |-> to, Target |-> a.Target,
                                    box |-> a.CompletionList.box])]

Editor_Focus(a) == [a EXCEPT !.Target = "ConsoleInput"]

CompletionList_Show(a, items) ==
  [a EXCEPT !.CompletionList =
              CompletionList_Make(@, SortLower(SelectSeq(items, NoUnderscore))),
            !.Target = "CompletionList"]

CompletionList_Hide(a) ==
  Editor_Focus([a EXCEPT !.CompletionList.input = <<>>,
                         !.CompletionList.box = FALSE])

\* entries[selectedIndex] of an empty list ends the handler with an
\* IndexError, after the pending input has been deleted.
CompletionList_AddSelection(a, cl) ==
  IF cl.entries = <<>> THEN [a EXCEPT !.error = "IndexError"]
  ELSE CompletionList_Hide(Editor_InsertText(a, cl.entries[cl.selectedIndex + 1]))

CompletionList_FinishSelection(a) ==
  CompletionList_AddSelection(
    IF a.CompletionList.input # <<>>
    THEN Editor_Backspace(a, Len(a.CompletionList.input)) ELSE a,
    a.CompletionList)

CommandHistory_Add(a, command) ==
  IF IsBlank(command) THEN a
  ELSE [a EXCEPT !.CommandHistory.history = Append(@, command), !.shown = None]

\* CommandHistory.ShowSelection; history[selectedIndex] of an empty list is
\* an IndexError.
CommandHistory_ShowSelection(a) ==
  IF a.CommandHistory.history = <<>> THEN [a EXCEPT !.error = "IndexError"]
  ELSE Editor_InsertText(
         a, a.CommandHistory.history[a.CommandHistory.selectedIndex[1] + 1])

CommandHistory_SetSelection(a, index) ==
  CommandHistory_ShowSelection(
    [TextBuffer_ClearText(a) EXCEPT !.CommandHistory.selectedIndex =
       <<Min2(Max2(index, 0), Len(a.CommandHistory.history) - 1)>>])

\* Show as it would be without the temporary entry for the current input.
CommandHistory_Show_NoEntry(a) ==
  [CommandHistory_SetSelection([a EXCEPT !.shown = <<a.CommandHistory.history>>],
                               Len(a.CommandHistory.history) - 2)
     EXCEPT !.Target = "CommandHistory"]

\* shown notes the history as it was before Show; the selection is
\* len(history) - 2 of the history with the current input appended.
CommandHistory_Show(a) ==
  [CommandHistory_SetSelection(
     [a EXCEPT !.CommandHistory.history = Append(@, TextBuffer_GetText(a)),
               !.shown = <<a.CommandHistory.history>>],
     (Len(a.CommandHistory.history) + 1) - 2)
     EXCEPT !.Target = "CommandHistory"]

CommandHistory_Hide(a) ==
  Editor_Focus([a EXCEPT !.CommandHistory.history = SubSeq(@, 1, Len(@) - 1),
                         !.CommandHistory.selectedIndex = None,
                         !.shown = None])

ConsoleInput_WriteInputToConsole(a, text) ==
  LET command == IF text # <<>> /\ text[Len(text)] = "\n"
                 THEN SubSeq(text, 1, Len(text) - 1) ELSE text
  IN TextBuffer_ClearText(CommandHistory_Add(a, command))

ConsoleInput_DoMultiLine(a, text, forceExecute) ==
  IF forceExecute \/ ConsoleInput_IsComplete(text)
  THEN ConsoleInput_WriteInputToConsole(a, text)
  ELSE Editor_InsertText(a, <<"\n">>)

ConsoleInput_DoSingleLine(a, text, forceExecute) ==
  IF LanguageEngine_TryExpression(text)
  THEN ConsoleInput_WriteInputToConsole(a, text)
  ELSE ConsoleInput_DoMultiLine(a, text, forceExecute)

ConsoleInput_DoInput(a, forceExecute) ==
  LET text == TextBuffer_GetText(a)
  IN IF Len(text) = 0 THEN a
     ELSE IF Len(a.lines) > 1 THEN ConsoleInput_DoMultiLine(a, text, forceExecute)
     ELSE ConsoleInput_DoSingleLine(a, text, forceExecute)

ConsoleInput_DoCompletions(a, members) ==
  LET a1 == Editor_InsertText(a, <<".">>)
  IN IF members # None /\ Len(members) > 0 THEN CompletionList_Show(a1, members)
     ELSE a1

\* The second chain of tests of Editor.HandleKey (Delete, Up, Down, Left,
\* Right).
Editor_HandleMove(a, key) ==
  CASE key.Name = "Delete" -> Editor_Delete(a, 1)
    [] key.Name = "Up" -> Caret_MoveLine(a, 0 - 1)
    [] key.Name = "Down" -> Caret_MoveLine(a, 1)
    [] key.Name = "Left" -> Caret_Move(a, 0 - 1).app
    [] key.Name = "Right" -> Caret_Move(a, 1).app
    [] OTHER -> a

Editor_HandleKey(a, key) ==
  IF key.Text = <<"\n">> THEN Editor_InsertText(a, <<"\n">>)
  ELSE Editor_HandleMove(
         IF key.Text # None /\ ~key.Ctrl THEN Editor_InsertText(a, key.Text)
         ELSE IF key.Name = "Backspace" THEN Editor_Backspace(a, 1)
         ELSE a,
         key)

ConsoleInput_HandleKey(a0, key, members) ==
  LET a == Delivered(a0, "ConsoleInput")
  IN IF key.Text = <<"\n">> THEN ConsoleInput_DoInput(a, key.Ctrl)
     ELSE IF key.Text = <<".">> THEN ConsoleInput_DoCompletions(a, members)
     ELSE IF key.Name = "Up" /\ a.Caret.line = 0 THEN CommandHistory_Show(a)
     ELSE Editor_HandleKey(a, key)

CompletionList_HandleKey(a0, key, members) ==
  LET a == Delivered(a0, "CompletionList")
      cl == a.CompletionList
  IN IF key.Text = <<"\n">> THEN CompletionList_FinishSelection(a)
     ELSE IF key.Text # None /\ IsAlnum(key.Text)
     THEN LET a1 == Editor_InsertText([a EXCEPT !.CompletionList.input = @ \o key.Text],
                                      key.Text)
          IN [a1 EXCEPT !.CompletionList =
                          CompletionList_FindSelection(@, cl.input \o key.Text)]
     ELSE IF key.Text = None /\ key.Name = "Up"
     THEN [a EXCEPT !.CompletionList = CompletionList_MoveSelection(@, 0 - 1)]
     ELSE IF key.Text = None /\ key.Name = "Down"
     THEN [a EXCEPT !.CompletionList = CompletionList_MoveSelection(@, 1)]
     ELSE IF key.Text = None /\ key.Name = "Backspace" /\ cl.input # <<>>
     THEN LET input == SubSeq(cl.input, 1, Len(cl.input) - 1)
              a1 == Editor_Backspace([a EXCEPT !.CompletionList.input = input], 1)
          IN [a1 EXCEPT !.CompletionList = CompletionList_FindSelection(@, input)]
     ELSE ConsoleInput_HandleKey(CompletionList_Hide(a), key, members)

CommandHistory_HandleKey(a0, key, members) ==
  LET a == Delivered(a0, "CommandHistory")
  IN IF key.Name = "Up"
     THEN CommandHistory_SetSelection(a, a.CommandHistory.selectedIndex[1] - 1)
     ELSE IF key.Name = "Down"
     THEN CommandHistory_SetSelection(a, a.CommandHistory.selectedIndex[1] + 1)
     ELSE ConsoleInput_HandleKey(CommandHistory_Hide(a), key, members)

TextInputHandler_OnKeyDown(a, pressed, members) ==
  IF pressed = None THEN a
  ELSE IF pressed[1].Name \in {"Shift", "Ctrl", "Alt"} THEN a
  ELSE LET key == pressed[1]
       IN CASE a.Target = "ConsoleInput" -> ConsoleInput_HandleKey(a, key, members)
            [] a.Target = "CompletionList" -> CompletionList_HandleKey(a, key, members)
            [] a.Target = "CommandHistory" -> CommandHistory_HandleKey(a, key, members)

\* TabPanel.Select: the chosen pane is given the focus; the console hands it
\* to its input, the about box does nothing with it.
TabPanel_Select(a, index) ==
  LET a1 == [a EXCEPT !.selected = index, !.error = ""]
  IN IF index = ConsoleTab THEN Editor_Focus(a1) ELSE a1

\* The state a key press leaves, if it is within the bounds.
Bounded(r) ==
  IF /\ Fits(r)
     /\ Len(r.lines) <= MaxInputLines
     /\ Len(r.CommandHistory.history) <= MaxHistory
     /\ Len(r.CompletionList.input) <= MaxPending
  THEN {[r EXCEPT !.delivered = <<>>]} ELSE {}

KeyDown(a, pressed, members) ==
  Bounded(TextInputHandler_OnKeyDown([a EXCEPT !.error = ""], pressed, members))

OnKeyDown ==
  /\ \E pressed \in KeyPresses, members \in MemberLists :
       /\ pressed # <<Key(".", <<".">>)>> => members = None
       /\ app' \in KeyDown(app, pressed, members)
  /\ UNCHANGED routing

\* A click on the header of a tab.
SelectTab ==
  /\ \E index \in Tabs : app' = TabPanel_Select(app, index)
  /\ UNCHANGED routing

\* The host reports a new size: DLRConsoleApp.Resize resizes the panes, and
\* TabPanel.Resize selects the selected tab again.
OnResize ==
  /\ app' = TabPanel_Select(app, app.selected)
  /\ UNCHANGED routing

KeyNext ==
  \/ OnKeyDown
  \/ SelectTab
  \/ OnResize

KeySpec == ConsoleInit /\ [][KeyNext]_vars

\* ---------------------------------------------------------------- observations

SendOps == {"Send", "SendResponse", "SendTransparent", "SendInternal", "SendExternal"}

\* The positions of the send calls, and of the direct responses, of the run.
Forwards == {i \in DOMAIN calls : calls[i].op \in SendOps}

Responds == {i \in DOMAIN calls : calls[i].op = "Respond"}

RoutedRequest == pc = "done" /\ isreq

RoutedResponse == pc = "done" /\ ~isreq

FromRegAgent == ToString(ctx.remoteEndPoint) = m_regAgentSocket

\* The Record-Route entries the run adds to the request: those the script
\* pushes, and the one the host pushes when a Send asks for it.
RecordRoutesInserted ==
  (Len(msg.recordRoutes) - Len(arrived.recordRoutes))
  + Cardinality({i \in Forwards : calls[i].addRecordRoute})

\* The Record-Route entry of this proxy: "sip:" + localEndPoint.ToString().
ProxyRecordRoute == <<"sip:">> \o ToString(ctx.localEndPoint)

\* The branch a request leaves with: the one handed to the send call, or, for
\* a transparent send (no Via is added), the branch of the top Via it carries.
BranchSent(i) ==
  IF calls[i].op = "SendTransparent" THEN Head(msg.vias).branch ELSE calls[i].branch

\* ---------------------------------------------------------------- properties

\* C1 as stated: every forwarded request (AllInOne and SIPAppServer scripts,
\* which decide Record-Route themselves) gets no Record-Route entry when its
\* To-tag is present and exactly one when it is absent, whatever the method.
C1_Original ==
  (RoutedRequest /\ script \in {"AllInOne", "SIPAppServer"} /\ Forwards # {})
    => IF arrived.toTag = None
       THEN RecordRoutesInserted = 1
       ELSE RecordRoutesInserted = 0

\* C1 amended: in the AllInOne and SIPAppServer scripts a forwarded INVITE
\* without To-tag gets exactly one Record-Route entry of this proxy (pushed in
\* front by the script, or asked of the host by the send call); an INVITE with
\* To-tag and every request of another method gets none.
C1_RecordRouteOnlyForNewInvite ==
  (RoutedRequest /\ script \in {"AllInOne", "SIPAppServer"} /\ Forwards # {})
    => IF arrived.method = "INVITE" /\ arrived.toTag = None
       THEN /\ RecordRoutesInserted = 1
            /\ script = "AllInOne" =>
                 msg.recordRoutes = <<ProxyRecordRoute>> \o arrived.recordRoutes
            /\ script = "SIPAppServer" =>
                 /\ msg.recordRoutes = arrived.recordRoutes
                 /\ \A i \in Forwards : calls[i].addRecordRoute
       ELSE /\ RecordRoutesInserted = 0
            /\ msg.recordRoutes = arrived.recordRoutes

C1_Witness ==
  /\ RoutedRequest /\ script = "AllInOne"
  /\ arrived.method = "INVITE" /\ arrived.toTag = None
  /\ Forwards # {}
  /\ msg.recordRoutes = <<ProxyRecordRoute>> \o arrived.recordRoutes

\* C2: a REGISTER from the registration agent leaves with no Route header and
\* with the branch of the Via that was on top when it arrived.
C2_AgentRegisterBranch ==
  (RoutedRequest /\ arrived.method = "REGISTER" /\ FromRegAgent)
    => \A i \in Forwards :
         /\ msg.routes = <<>>
         /\ BranchSent(i) = Head(arrived.vias).branch
         /\ BranchSent(i) # ctx.proxyBranch

C2_Witness ==
  /\ RoutedRequest /\ script = "AllInOne"
  /\ arrived.method = "REGISTER" /\ FromRegAgent
  /\ Len(arrived.routes) >= 2
  /\ Len(arrived.vias) >= 2
  /\ \E i \in Forwards : calls[i].branch = AgentBranch /\ msg.routes = <<>>

\* C3: a REGISTER from the registration agent goes to the endpoint its first
\* Route header names, not to the configured registrar socket (in the
\* SIPAppServer script the Route's URI goes through the resolver, which may
\* have no answer).
C3_AgentRegisterDestination ==
  (RoutedRequest /\ arrived.method = "REGISTER" /\ FromRegAgent /\ arrived.routes # <<>>)
    => /\ Forwards # {}
       /\ \A i \in Forwards :
            \/ calls[i].dest = ToString(RouteToSIPEndPoint(Head(arrived.routes)))
            \/ /\ script = "SIPAppServer"
               /\ ResolveEndPoint(ctx) = None
               /\ calls[i].dest = None

C3_Witness ==
  /\ RoutedRequest /\ script = "ProxyLocal"
  /\ arrived.method = "REGISTER" /\ FromRegAgent
  /\ arrived.routes # <<>>
  /\ \E i \in Forwards :
       /\ calls[i].dest = Socket("udp", "192", "0", "2", "44", "5060")
       /\ calls[i].dest # m_registrarSocket

\* The origin is the deployment's application server / notifier.
FromAppServer ==
  IF script = "ProxyExample" THEN ctx.isFromAppServer
  ELSE ToString(ctx.remoteEndPoint) = m_appServerSocket(script)

FromNotifier ==
  /\ script \in {"ProxyLocal", "ProxyExample"}
  /\ ToString(ctx.remoteEndPoint) = m_notifierSocket(script)

\* The application server a deployment forwards to.
AppServerOf(s) == IF s = "ProxyExample" THEN ToString(HostAppServer) ELSE m_appServerSocket(s)

\* The popped top Via of a response names one of the proxy's local sockets.
TopViaIsLocal == ToString(Head(arrived.vias).sentBy) \in LocalSockets(script)

\* The runs of the ExampleProxyScripts deployments that go through
\* SendExternalRequest or SendExternalResponse.
ThroughSendExternal ==
  /\ script \in {"ProxyLocal", "ProxyExample"}
  /\ pc = "done"
  /\ IF isreq
     THEN \/ arrived.method = "NOTIFY" /\ (FromAppServer \/ FromNotifier)
          \/ arrived.method \notin {"REGISTER", "SUBSCRIBE", "NOTIFY"} /\ FromAppServer
     ELSE \/ arrived.method \in {"NOTIFY", "SUBSCRIBE"} /\ (FromAppServer \/ FromNotifier)
          \/ arrived.method \notin {"REGISTER", "NOTIFY", "SUBSCRIBE"} /\ FromAppServer

\* The resolver answered with no endpoint (and is not still looking).
ResolutionFailed ==
  /\ ~ctx.lookup.Pending
  /\ ctx.lookup.LookupError # None \/ ctx.lookup.EndPointResults = None

\* The destination's class, as the deployment's IsLocalNetDestination gives it.
ClassifiedLocal(dest) ==
  IF script = "ProxyLocal" THEN IsLocalNetDestinationLocal(dest)
  ELSE IsLocalNetDestinationExample(dest)

\* C4 as stated: a response whose popped top Via is none of the proxy's local
\* sockets is dropped, no send call is made for it.
C4_Original == (RoutedResponse /\ ~TopViaIsLocal) => Forwards = {}

\* C5: a send made through SendExternalRequest / SendExternalResponse carries
\* no public IP when IsLocalNetDestination classifies the resolved
\* destination as local, and the configured public IP when it does not.
C5_PublicIPByClass ==
  ThroughSendExternal
    => \A i \in Forwards :
         /\ ctx.lookup.EndPointResults # None
         /\ calls[i].publicIP = IF ClassifiedLocal(ctx.lookup.EndPointResults[1])
                                THEN None ELSE ctx.publicip

C5_Witness ==
  /\ ThroughSendExternal /\ script = "ProxyLocal" /\ isreq
  /\ ctx.lookup.EndPointResults = <<LocalNetDest>>
  /\ \E i \in Forwards : calls[i].op = "SendExternal" /\ calls[i].publicIP = None

\* C6 as stated: an INVITE with a Contact from an origin other than the
\* application server is forwarded to the application server socket with the
\* host of its first Contact rewritten to the observed address (the address
\* alone or address:port).
C6_Original ==
  (RoutedRequest /\ script \in {"AllInOne", "SIPAppServer"}
     /\ arrived.method = "INVITE" /\ ~FromAppServer /\ HasContact(arrived))
    => /\ \E i \in Forwards : calls[i].dest = m_appServerSocket(script)
       /\ msg.contact[1].host \in {IPToString(ctx.remoteEndPoint.address),
                                    SocketToString(ctx.remoteEndPoint)}

\* C7 as stated: a NOTIFY whose Event begins with "refer", from neither the
\* application server nor the notifier, is forwarded to the application
\* server and not to the notifier.
C7_Original ==
  (RoutedRequest /\ arrived.method = "NOTIFY"
     /\ arrived.event # None /\ StartsWith(arrived.event, ReferPrefix)
     /\ ~FromAppServer /\ ~FromNotifier)
    => /\ \E i \in Forwards : calls[i].dest = AppServerOf(script)
       /\ \A i \in Forwards : calls[i].dest # m_notifierSocket(script)

\* C8 as stated: a NOTIFY whose Event begins with "refer" is forwarded to the
\* application server whatever its origin (proxyscript-local.py).
C8_Original ==
  (RoutedRequest /\ script = "ProxyLocal" /\ arrived.method = "NOTIFY"
     /\ arrived.event # None /\ StartsWith(arrived.event, ReferPrefix))
    => \E i \in Forwards : calls[i].dest = AppServerOf(script)

\* C8 amended: in proxyscript-local.py the origin is tested first.  A "refer"
\* NOTIFY from the application server or the notifier is handled as any
\* outbound NOTIFY (a lookup, then at most a SendExternal to the resolved
\* destination, never a SendInternal); from any other origin it is sent
\* internally to the application server.
C8_ReferNotifyOriginFirst ==
  (RoutedRequest /\ script = "ProxyLocal" /\ arrived.method = "NOTIFY"
     /\ arrived.event # None /\ StartsWith(arrived.event, ReferPrefix))
    => IF FromAppServer \/ FromNotifier
       THEN \A i \in Forwards :
              /\ calls[i].op = "SendExternal"
              /\ ctx.lookup.EndPointResults # None
              /\ calls[i].dest = ToString(ctx.lookup.EndPointResults[1])
       ELSE /\ Forwards # {}
            /\ \A i \in Forwards :
                 calls[i].op = "SendInternal" /\ calls[i].dest = AppServerOf(script)

C8_Witness ==
  /\ RoutedRequest /\ script = "ProxyLocal" /\ arrived.method = "NOTIFY"
  /\ arrived.event = EventRefer /\ FromAppServer
  /\ \E i \in Forwards : calls[i].op = "SendExternal" /\ calls[i].dest = ToString(PublicNetDest)

\* The requests a script sends to the destination the resolver gives.
RoutedByResolution ==
  /\ RoutedRequest
  /\ \/ script = "SIPAppServer" /\ arrived.method # "REGISTER" /\ FromAppServer
     \/ ThroughSendExternal

\* C9 as stated: when resolution fails for a request other than ACK, a
\* DoesNotExistAnywhere response naming the unresolved host is produced and
\* no forwarding call is made (proxyscript-local.py, SIPAppServer).
C9_Original ==
  (RoutedByResolution /\ script \in {"ProxyLocal", "SIPAppServer"}
     /\ arrived.method # "ACK" /\ ResolutionFailed)
    => /\ Forwards = {}
       /\ \E i \in Responds :
            /\ calls[i].status = "DoesNotExistAnywhere"
            /\ \E k \in DOMAIN calls[i].reason : calls[i].reason[k] = arrived.uriHost

\* C10 as stated: when resolution fails for an ACK, no direct response and no
\* forwarding call is made.
C10_Original ==
  (RoutedByResolution /\ arrived.method = "ACK" /\ ResolutionFailed)
    => Forwards = {} /\ Responds = {}

\* ---------------------------------------------------------------- dispatcher affinity

\* The instance the table holds for the key the routed message carries.
RecordedInstance ==
  IF arrived.key = None THEN None ELSE affinity[arrived.key[1]]

\* The routed message comes from the far end of the dialog, an external UA.
FromExternalUA == ctx.remoteEndPoint = ExternalUA

\* A later message of a recorded dialog on its way to the application
\* server: a CANCEL, an ACK or an in-dialog request of the methods the
\* dispatcher serves, or a response to an INVITE, ACK or CANCEL.
LaterOfDialog ==
  /\ pc = "done"
  /\ FromExternalUA
  /\ RecordedInstance # None
  /\ IF isreq
     THEN /\ arrived.method \notin {"REGISTER", "SUBSCRIBE", "NOTIFY"}
          /\ arrived.method \in {"CANCEL", "ACK"} \/ arrived.toTag # None
     ELSE arrived.method \in {"INVITE", "ACK", "CANCEL"}

\* Every send of the run names the endpoint, and there is one.
SentOnlyTo(endPoint) ==
  /\ Forwards # {}
  /\ \A i \in Forwards : calls[i].dest = ToString(endPoint)

\* C11 as stated: once a key is recorded for instance X, every later CANCEL,
\* ACK or in-dialog request and every matching response that carries the key
\* is routed to X.
C11_Original == LaterOfDialog => SentOnlyTo(RecordedInstance[1])

\* The run forwarded the message to the endpoint.
ForwardedTo(endPoint) == \E i \in Forwards : calls[i].dest = ToString(endPoint)

\* A dialog-establishing request of a followed dialog, from an external UA.
FirstOfDialog ==
  /\ RoutedRequest
  /\ FromExternalUA
  /\ arrived.key # None
  /\ DialogEstablishing(arrived)

ConfiguredAppServer ==
  IF script = "ProxyExample" THEN ctx.appServer
  ELSE <<ParseSIPEndPoint(m_appServerSocket(script))>>

InstanceAvailable == ctx.dispatcher # None \/ ConfiguredAppServer # None

\* A request on its way to an application server: not from the application
\* server, and of a method no other backend role takes.
NeedsAppServer ==
  /\ RoutedRequest
  /\ ~FromAppServer
  /\ arrived.method \notin {"REGISTER", "SUBSCRIBE", "NOTIFY"}

BadGateways == {i \in Responds : calls[i].status = "BadGateway"}

\* C13: a request that needs an application server when neither the
\* dispatcher lookup nor the configuration yields an instance is answered
\* with BadGateway and not forwarded; no request is answered with BadGateway
\* while an instance is available.
C13_BadGatewayIffNoInstance ==
  /\ (NeedsAppServer /\ ~InstanceAvailable) => (BadGateways # {} /\ Forwards = {})
  /\ (RoutedRequest /\ InstanceAvailable) => BadGateways = {}

\* An INVITE from the external UA found no instance and was answered with
\* BadGateway.
C13_Witness ==
  /\ NeedsAppServer
  /\ FromExternalUA
  /\ arrived.method = "INVITE"
  /\ ~InstanceAvailable
  /\ BadGateways # {}
  /\ Forwards = {}

\* The run resolved the destination of an outbound request and the lookup
\* was still pending.
ResolutionPending == ThroughSendExternal /\ isreq /\ ctx.lookup.Pending

\* C14: while the resolution of an outbound request's destination is
\* pending the run produces no error response and no forwarding call.
C14_PendingDefers == ResolutionPending => (Responds = {} /\ Forwards = {})

\* An INVITE from the application server whose lookup is pending: the run
\* only logs.
C14_Witness ==
  /\ ResolutionPending
  /\ arrived.method = "INVITE"
  /\ FromAppServer
  /\ err = ""
  /\ Len(calls) = 1
  /\ calls[1].op = "Log"

\* A REGISTER from the Registration Agent that carries no Route header.
AgentRegisterWithoutRoute ==
  /\ RoutedRequest
  /\ arrived.method = "REGISTER"
  /\ FromRegAgent
  /\ arrived.routes = <<>>

Logs == {i \in DOMAIN calls : calls[i].op = "Log"}

\* C15 as stated: a REGISTER from the Registration Agent without a Route
\* header is logged and dropped: no send, no direct response, and the run
\* ends without an unhandled error.
C15_Original ==
  AgentRegisterWithoutRoute =>
    (Logs # {} /\ Forwards = {} /\ Responds = {} /\ err = "")

\* C16 as stated: every routing invocation, of a request or of a response,
\* runs to completion without an unhandled error.
C16_Original == (pc = "done") => (err = "")

\* ---------------------------------------------------------------- REGISTER correlation

\* A REGISTER request from an origin other than the Registration Agent.
RegisterNotFromAgent ==
  /\ RoutedRequest
  /\ arrived.method = "REGISTER"
  /\ ~FromRegAgent

\* The request is forwarded once, to the configured Registrar socket.
ForwardedToRegistrar ==
  /\ Cardinality(Forwards) = 1
  /\ \A i \in Forwards : calls[i].dest = m_registrarSocket
  /\ Responds = {}

\* The top Via of the forwarded request records, in its proxy parameter, the
\* local socket the request was received on.
TopViaTagged ==
  /\ "proxy" \in DOMAIN Head(msg.vias).params
  /\ Head(msg.vias).params["proxy"] = ToString(ctx.localEndPoint)

\* The send call is a sys.SendInternal that hands the host the local socket
\* the request was received on.
ReceivingSocketHanded ==
  /\ Forwards # {}
  /\ \A i \in Forwards : /\ calls[i].op = "SendInternal"
                          /\ calls[i].recvOn = ToString(ctx.localEndPoint)

\* The receiving socket travels with the forwarded request: in its top Via,
\* or in the arguments of sys.SendInternal.
ReceivingSocketRecorded == TopViaTagged \/ ReceivingSocketHanded

\* The origin is one of the backend sockets the SIPAppServer script exempts
\* from tagging.
FromBackendSocket ==
  ToString(ctx.remoteEndPoint) \in {m_appServerSocket(script), m_registrarSocket, m_regAgentSocket}

\* C17 as stated: a REGISTER from any origin other than the Registration
\* Agent is forwarded to the configured Registrar socket with its top Via
\* tagged with the local socket it was received on.
C17_Original == RegisterNotFromAgent => (ForwardedToRegistrar /\ ReceivingSocketRecorded)

\* C17 amended: such a REGISTER is forwarded to the configured Registrar
\* socket, and the local socket it was received on is recorded with it,
\* except that the SIPAppServer script records it only for an origin that is
\* not one of its backend sockets (application server, Registrar).
C17_RegisterToRegistrarTagged ==
  RegisterNotFromAgent =>
    /\ ForwardedToRegistrar
    /\ IF script = "SIPAppServer"
       THEN ReceivingSocketRecorded <=> ~FromBackendSocket
       ELSE ReceivingSocketRecorded

\* A REGISTER from the external UA went to the Registrar with its Via tagged.
C17_Witness ==
  /\ RegisterNotFromAgent
  /\ FromExternalUA
  /\ script = "SIPAppServer"
  /\ ForwardedToRegistrar
  /\ TopViaTagged

\* A REGISTER response from the Registrar to a request the script tagged: the
\* Via under the proxy's own carries the proxy parameter.
TaggedRegistrarResponse ==
  /\ RoutedResponse
  /\ arrived.method = "REGISTER"
  /\ ToString(ctx.remoteEndPoint) = m_registrarSocket
  /\ Len(arrived.vias) >= 2
  /\ "proxy" \in DOMAIN arrived.vias[2].params

\* The socket the tag recorded.
TaggedSocket == arrived.vias[2].params["proxy"]

\* No Via of the message handed to the send call carries the tag.
TagStripped == \A i \in DOMAIN msg.vias : "proxy" \notin DOMAIN msg.vias[i].params

\* The socket the script asks the response to leave from.
LeavesFrom(socket) ==
  \/ msg.localSIPEndPoint = socket
  \/ \E i \in Forwards : calls[i].sendFrom = socket

\* C18 as stated: the Registrar's response to a REGISTER received on local
\* socket L is forwarded from L, as the parameter tagged on the request
\* recorded, and the parameter is stripped before the response is sent.
C18_Original ==
  TaggedRegistrarResponse =>
    (Forwards # {} /\ LeavesFrom(TaggedSocket) /\ TagStripped)

\* A REGISTER response that does not come from the Registrar socket: one on
\* its way to the Registration Agent.
RegisterResponseForAgent ==
  /\ RoutedResponse
  /\ arrived.method = "REGISTER"
  /\ ToString(ctx.remoteEndPoint) # m_registrarSocket

\* The proxy's own Via on the response as it arrived.
ProxyViaOfResponse == Head(arrived.vias)

\* The Via the response leaves with on top: pushed by the script over the
\* Vias left after the proxy's own was popped, or, in the
\* ExampleProxyScripts, handed to sys.SendTransparent as socket and branch.
AgentViaRestored ==
  IF script \in {"AllInOne", "SIPAppServer"}
  THEN /\ Forwards # {}
       /\ msg.vias = <<Via(ParseSIPEndPoint(m_regAgentSocket), ProxyViaOfResponse.branch,
                           NoParams)>> \o Tail(arrived.vias)
  ELSE /\ Forwards # {}
       /\ \A i \in Forwards : /\ calls[i].op = "SendTransparent"
                               /\ calls[i].dest = m_regAgentSocket
                               /\ calls[i].branch = ProxyViaOfResponse.branch

\* C19: a REGISTER response that does not come from the Registrar socket
\* leaves with a new top Via that names the Registration-Agent socket and
\* carries the branch of the proxy's own Via on that response.
C19_AgentViaRestored == RegisterResponseForAgent => AgentViaRestored

\* A REGISTER response from the external registrar, whose proxy Via carries
\* the agent's branch, left with the agent's Via pushed back on top.
C19_Witness ==
  /\ RegisterResponseForAgent
  /\ script = "AllInOne"
  /\ FromExternalUA
  /\ ProxyViaOfResponse.branch = AgentBranch
  /\ Len(msg.vias) = Len(arrived.vias)
  /\ ToString(Head(msg.vias).sentBy) = m_regAgentSocket
  /\ Head(msg.vias).branch = AgentBranch

\* ---------------------------------------------------------------- Via round trip

\* Pop the top Via, then push a Via with the same endpoint and branch.
ViaRoundTrip(m) ==
  PushViaHeader(PopTopViaHeader(m),
                SIPViaHeader(TopViaHeader(m).sentBy, TopViaHeader(m).branch))

\* Same length, same order, same top endpoint and branch.
ObservablyEquivalent(a, b) ==
  /\ Len(a.vias) = Len(b.vias)
  /\ Tail(a.vias) = Tail(b.vias)
  /\ Head(a.vias).sentBy = Head(b.vias).sentBy
  /\ Head(a.vias).branch = Head(b.vias).branch

ForwardedRequest == RoutedRequest /\ Forwards # {}

\* C21 as stated: every forwarded request leaves with Max-Forwards exactly one
\* less than on arrival, whatever its method.
C21_Original ==
  ForwardedRequest => (msg.maxForwards = arrived.maxForwards - 1)

\* What the deployment's script does with a request.
ScriptRequest(s, m, c) ==
  CASE s = "AllInOne" -> AllInOneRequest(m, c)
    [] s = "SIPAppServer" -> AppServerRequest(m, c)
    [] s = "ProxyLocal" -> LocalRequest(m, c)
    [] s = "ProxyExample" -> ExampleRequest(m, c)

\* The message with its Max-Forwards left out of the comparison.
WithoutMaxForwards(m) == [m EXCEPT !.maxForwards = 0]

\* C22: the outcome of routing a request does not depend on its Max-Forwards.
\* The count is decremented whatever it is, the same request arriving with any
\* other count gets the same host calls, the same error, the same headers and
\* the same decrement, and no request is answered Too Many Hops.
C22_MaxForwardsIgnored ==
  RoutedRequest =>
    /\ msg.maxForwards < arrived.maxForwards
    /\ \A h \in HopValues :
         LET other == ScriptRequest(script, [arrived EXCEPT !.maxForwards = h], ctx)
         IN /\ other.calls = calls
            /\ other.err = err
            /\ WithoutMaxForwards(other.msg) = WithoutMaxForwards(msg)
            /\ h - other.msg.maxForwards = arrived.maxForwards - msg.maxForwards
    /\ \A i \in Responds : calls[i].status # "TooManyHops"

\* A request that arrived with a negative Max-Forwards was decremented and
\* forwarded.
C22_Witness ==
  /\ ForwardedRequest
  /\ arrived.maxForwards < 0
  /\ msg.maxForwards < arrived.maxForwards

\* The endpoint is the one the socket string names: same protocol, same
\* address, same port.
SameEndPoint(ep, socket) ==
  LET r == ParseSIPEndPoint(socket)
  IN ep.protocol = r.protocol /\ ep.address = r.address /\ ep.port = r.port

\* The role sockets a deployment's script is configured with.
ConfiguredSockets(s) ==
  {m_registrarSocket, m_regAgentSocket, AppServerOf(s)}
  \cup (IF s \in {"ProxyLocal", "ProxyExample"} THEN {m_notifierSocket(s)} ELSE {})

MatchesNoSocket == \A r \in ConfiguredSockets(script) : ~SameEndPoint(ctx.remoteEndPoint, r)

\* How the run treated the origin, read off what it did: the SIPAppServer
\* script tags the top Via of a request from outside, the proxyscript-local.py
\* script sends inward (sys.SendInternal) what does not come from a backend.
TaggedAsOutside == msg.vias # <<>> /\ TopViaTagged

SentInward == \E i \in Forwards : calls[i].op = "SendInternal"

\* C23: origin classification is an exact match.  In SIPAppServer a request is
\* treated as coming from outside exactly when its origin differs from the
\* application-server, registrar and registration-agent sockets in protocol,
\* address or port; in ProxyLocal a request other than REGISTER and SUBSCRIBE
\* is sent inward exactly when its origin differs so from the application
\* server (for a NOTIFY: and from the notifier); and in every deployment a
\* request from an endpoint that matches no configured socket gets the host
\* calls the same request from an external user agent gets.
C23_ExactOriginMatch ==
  RoutedRequest =>
    /\ (script = "SIPAppServer") =>
         (TaggedAsOutside <=>
            \A r \in {m_appServerSocket(script), m_registrarSocket, m_regAgentSocket} :
               ~SameEndPoint(ctx.remoteEndPoint, r))
    /\ (script = "ProxyLocal" /\ arrived.method \notin {"REGISTER", "SUBSCRIBE"}) =>
         (SentInward <=>
            /\ ~SameEndPoint(ctx.remoteEndPoint, m_appServerSocket(script))
            /\ arrived.method = "NOTIFY" =>
                 ~SameEndPoint(ctx.remoteEndPoint, m_notifierSocket(script)))
    /\ MatchesNoSocket =>
         calls = ScriptRequest(script, arrived,
                               [ctx EXCEPT !.remoteEndPoint = ExternalUA]).calls

\* An INVITE from an endpoint one component away from the application-server
\* socket was sent inward, to the application server.
C23_Witness ==
  /\ RoutedRequest
  /\ script = "ProxyLocal"
  /\ arrived.method = "INVITE"
  /\ ctx.remoteEndPoint \in NearMisses(script)
  /\ SentInward

\* The outcome of routing the task's message alone, given the answer its
\* dispatcher lookup got and its resolver result.
RoutedAlone(t) ==
  LET c == [t.ctx EXCEPT !.dispatcher = t.looked]
  IN IF t.isreq THEN LocalRequest(t.arrived, c) ELSE LocalResponse(t.arrived, c)

SubscribeRequest == RoutedRequest /\ arrived.method = "SUBSCRIBE"

\* Every send of the run names the socket, and there is one.
SentOnlyToSocket(socket) ==
  /\ Forwards # {}
  /\ \A i \in Forwards : calls[i].dest = socket

RejectedNotAllowed ==
  /\ Forwards = {}
  /\ \E i \in Responds : calls[i].status = "MethodNotAllowed"

\* The deployments whose script configures a Notifier socket.
HasNotifier(s) == s \in {"ProxyLocal", "ProxyExample"}

\* C25 as stated: every SUBSCRIBE request is forwarded to the Notifier socket
\* or rejected with Method Not Allowed, and goes nowhere else.
C25_Original ==
  SubscribeRequest =>
    (SentOnlyToSocket(m_notifierSocket(script)) \/ RejectedNotAllowed)

\* C25 amended: a SUBSCRIBE request goes to the Notifier socket where the
\* script configures one; elsewhere it takes the path of all other methods,
\* to the application server, or, from the application server, only to what
\* the resolver returned; and it is never answered directly.
C25_SubscribeByDeployment ==
  SubscribeRequest =>
    /\ Responds = {}
    /\ IF HasNotifier(script)
       THEN SentOnlyToSocket(m_notifierSocket(script))
       ELSE IF FromAppServer
            THEN \A i \in Forwards : calls[i].dest = OptString(ResolveEndPoint(ctx))
            ELSE SentOnlyToSocket(m_appServerSocket(script))

\* A SUBSCRIBE from the external user agent was forwarded to the application
\* server of a deployment without Notifier.
C25_Witness ==
  /\ SubscribeRequest
  /\ script = "SIPAppServer"
  /\ FromExternalUA
  /\ SentOnlyToSocket(m_appServerSocket(script))

NotifyRequest == RoutedRequest /\ HasNotifier(script) /\ arrived.method = "NOTIFY"

\* The resolver found the destination of the request URI.
Resolved == ~ctx.lookup.Pending /\ ctx.lookup.LookupError = None /\ ctx.lookup.EndPointResults # None

\* C26 as stated: a NOTIFY from the application server or the notifier is sent
\* outward to the destination resolved from its request URI and never to the
\* notifier; a NOTIFY from any other origin whose Event does not begin with
\* "refer", or is absent, is forwarded to the notifier socket.
C26_Original ==
  NotifyRequest =>
    IF FromAppServer \/ FromNotifier
    THEN /\ \A i \in Forwards : calls[i].dest # m_notifierSocket(script)
         /\ Resolved => SentOnlyTo(ctx.lookup.EndPointResults[1])
    ELSE (arrived.event = None \/ ~StartsWith(arrived.event, ReferPrefix))
           => SentOnlyToSocket(m_notifierSocket(script))

\* A response of the last branch of the response block (neither REGISTER nor
\* NOTIFY nor SUBSCRIBE) that does not come from the application server.
OtherResponseFromOutside ==
  /\ RoutedResponse
  /\ script \in {"ProxyLocal", "ProxyExample"}
  /\ arrived.method \notin {"REGISTER", "NOTIFY", "SUBSCRIBE"}
  /\ ~FromAppServer

\* The application server a run falls back on: GetAppServer().
DefaultAppServer ==
  IF script = "ProxyExample" THEN OptString(ctx.appServer) ELSE GetAppServerLocal

\* C27 as stated: such a response with CSeq method ACK, CANCEL or INVITE is
\* sent to the endpoint the dispatcher lookup returned when there is one, and
\* to the default application server exactly when it returned none; with any
\* other CSeq method it is sent internally.
C27_Original ==
  OtherResponseFromOutside =>
    IF arrived.method \in {"ACK", "CANCEL", "INVITE"}
    THEN SentOnlyToSocket(IF ctx.dispatcher # None THEN ToString(ctx.dispatcher[1])
                          ELSE DefaultAppServer)
    ELSE /\ Forwards # {}
         /\ \A i \in Forwards : calls[i].op = "SendInternal"

\* An INVITE response in a deployment whose script mangles the Contact of
\* responses itself.
InviteResponse ==
  /\ RoutedResponse
  /\ script \in {"AllInOne", "SIPAppServer"}
  /\ arrived.method = "INVITE"

\* The address the message was observed to come from, bare or with its port.
ObservedAddress ==
  {IPToString(ctx.remoteEndPoint.address), SocketToString(ctx.remoteEndPoint)}

\* C28 as stated: an INVITE response that carries a Contact leaves with the
\* host of its first Contact URI replaced by the address it was observed to
\* come from; one with no Contact is forwarded with its Contact header as it
\* came.
C28_Original ==
  InviteResponse =>
    /\ Forwards # {}
    /\ IF HasContact(arrived)
       THEN msg.contact[1].host \in ObservedAddress
       ELSE msg.contact = arrived.contact

SubscriptionResponse ==
  /\ RoutedResponse
  /\ HasNotifier(script)
  /\ arrived.method \in {"NOTIFY", "SUBSCRIBE"}

\* C29 as stated: a NOTIFY or SUBSCRIBE response from neither the notifier nor
\* the application server is sent internally; from either of them it is sent
\* outward, to the peer resolved from the response.
C29_Original ==
  SubscriptionResponse =>
    IF ~FromNotifier /\ ~FromAppServer
    THEN /\ Forwards # {}
         /\ \A i \in Forwards : calls[i].op = "SendInternal"
    ELSE /\ \A i \in Forwards : calls[i].op = "SendExternal"
         /\ Resolved => Forwards # {}

\* A request routed by one of the scripts that have the rport step
\* (proxyscript-local.py, proxyscript.py), with its top Via still on top.
RportStep ==
  /\ RoutedRequest
  /\ script \in {"ProxyLocal", "ProxyExample"}
  /\ msg.vias # <<>>

TopParams(m) == Head(m.vias).params

\* C30: the top Via loses its rport parameter exactly when the User-Agent is
\* one of the two listed Cisco strings; for every other User-Agent the top
\* Via's parameters leave as they came.
C30_RportOnlyForListedClients ==
  RportStep =>
    /\ ("rport" \in DOMAIN TopParams(arrived) /\ "rport" \notin DOMAIN TopParams(msg))
         <=> ("rport" \in DOMAIN TopParams(arrived) /\ arrived.userAgent \in CiscoUserAgents)
    /\ arrived.userAgent \notin CiscoUserAgents => TopParams(msg) = TopParams(arrived)

\* A request of a listed Cisco client arrived with rport and left without it.
C30_Witness ==
  /\ RportStep
  /\ Forwards # {}
  /\ arrived.userAgent = "Cisco-CP7911G/8.5.3"
  /\ "rport" \in DOMAIN TopParams(arrived)
  /\ "rport" \notin DOMAIN TopParams(msg)

\* The outbound actions of the run: its send calls and its direct responses.
OutboundActions == Forwards \cup Responds

\* C31: one routing invocation makes at most one outbound action, a send call
\* or a direct response, never two sends and never a send and a response.
C31_AtMostOneOutboundAction ==
  (pc = "done") => Cardinality(OutboundActions) <= 1

\* A request whose destination did not resolve was answered once and not sent.
C31_Witness ==
  /\ RoutedRequest
  /\ script = "ProxyLocal"
  /\ Cardinality(Responds) = 1
  /\ Forwards = {}

\* A request of the application server on the path of all other methods
\* (proxyscript-local.py, proxyscript.py).
OtherRequestFromAppServer ==
  /\ RoutedRequest
  /\ script \in {"ProxyLocal", "ProxyExample"}
  /\ arrived.method \notin {"REGISTER", "SUBSCRIBE", "NOTIFY"}
  /\ FromAppServer

\* C32 as stated: such a request is sent by method, ACK, CANCEL and INVITE
\* transparently (no received-on endpoint, no proxy branch), every other
\* method with SendExternal carrying the local endpoint it was received on and
\* the proxy branch.
C32_Original ==
  OtherRequestFromAppServer =>
    /\ Resolved => Forwards # {}
    /\ \A i \in Forwards :
         IF arrived.method \in {"ACK", "CANCEL", "INVITE"}
         THEN /\ calls[i].op = "SendTransparent"
              /\ calls[i].recvOn = None
              /\ calls[i].branch = ""
         ELSE /\ calls[i].op = "SendExternal"
              /\ calls[i].recvOn = ToString(ctx.localEndPoint)
              /\ calls[i].branch = ctx.proxyBranch

\* The popped proxy Via of a SIPAppServer response names a channel the host
\* knows (sys.GetChannelSIPEndPoint(cn) is not None).
KnownChannel ==
  /\ ParamGet(Head(arrived.vias).params, "cn") # None
  /\ ctx.channel # None

\* C33 as stated: the response is forwarded whatever its method; it is sent
\* from the endpoint of the channel its popped Via names when that channel is
\* known, and from the default channel (local endpoint unset, no endpoint
\* handed to the send) when the cn parameter is absent or names none.
C33_Original ==
  (RoutedResponse /\ script = "SIPAppServer") =>
    /\ Forwards # {}
    /\ IF KnownChannel
       THEN msg.localSIPEndPoint = ToString(ctx.channel[1])
       ELSE /\ msg.localSIPEndPoint = None
            /\ \A i \in Forwards : calls[i].sendFrom = None

\* A response the scripts hand to SendExternalResponse: a NOTIFY or SUBSCRIBE
\* response from the notifier or an application server, or any response but
\* a REGISTER one from an application server.
OutboundResponse ==
  /\ RoutedResponse
  /\ script \in {"ProxyLocal", "ProxyExample"}
  /\ \/ arrived.method \in {"NOTIFY", "SUBSCRIBE"} /\ (FromNotifier \/ FromAppServer)
     \/ arrived.method \notin {"REGISTER", "NOTIFY", "SUBSCRIBE"} /\ FromAppServer

\* C34 as stated: an outbound response whose destination does not resolve is
\* logged and dropped, with no send and no direct error response; one whose
\* destination resolves is sent exactly once.
C34_Original ==
  OutboundResponse =>
    IF ResolveEndPoint(ctx) = None
    THEN Logs # {} /\ Forwards = {} /\ Responds = {}
    ELSE Cardinality(Forwards) = 1 /\ Responds = {}

\* C35: a routed message that is not an INVITE, and an INVITE request that
\* came from the application server socket, leaves the script with the
\* Contact header it arrived with.
C35_ContactOnlyOnInvite ==
  (pc = "done" /\ (arrived.method # "INVITE" \/ (isreq /\ FromAppServer))) =>
    msg.contact = arrived.contact

\* A request that is not an INVITE and carries a Contact was forwarded by the
\* AllInOne script to its application server.
C35_Witness ==
  /\ RoutedRequest
  /\ script = "AllInOne"
  /\ arrived.method \notin {"INVITE", "REGISTER"}
  /\ HasContact(arrived)
  /\ ~FromAppServer
  /\ Forwards # {}

\* C36: once a list of at least one entry has been made, whatever calls of
\* SetSelection, MoveSelection and FindSelection follow, the selected index
\* is an index of the entries, the top index is not negative, and the
\* selected entry is one of the visibleEntries entries shown from the top
\* index on.
C36_SelectionInsideWindow ==
  LET cl == app.CompletionList
  IN (cl.box /\ cl.entries # <<>>) =>
       /\ 0 <= cl.selectedIndex /\ cl.selectedIndex <= Len(cl.entries) - 1
       /\ cl.topIndex >= 0
       /\ cl.topIndex <= cl.selectedIndex
       /\ cl.selectedIndex <= cl.topIndex + cl.visibleEntries - 1

\* A list longer than it can show has been scrolled down to its last entry.
C36_Witness ==
  LET cl == app.CompletionList
  IN /\ cl.box
     /\ Len(cl.entries) > MaxVisible
     /\ cl.selectedIndex = Len(cl.entries) - 1
     /\ cl.topIndex > 0

\* The caret addresses a position of the text: a line of the buffer and a
\* column from 0 to the number of columns of that line.
CaretValid(a) ==
  /\ 0 <= a.Caret.line /\ a.Caret.line < Len(a.lines)
  /\ 0 <= a.Caret.column /\ a.Caret.column <= Len(a.lines[a.Caret.line + 1])

\* C38 as stated: after any sequence of editor operations the buffer has at
\* least one line and the caret addresses a valid position.
C38_Original == Len(app.lines) >= 1 /\ CaretValid(app)

\* CommandHistory.IsVisible
HistoryVisible(a) == a.CommandHistory.selectedIndex # None

\* C37: while the history is visible, selectedIndex is at least 0 and at most
\* len(history)-1, also when the history was empty before Show; and after
\* Show and any number of Up and Down keys, Hide leaves the history as it was
\* before Show.
C37_BrowsingRestoresHistory ==
  HistoryVisible(app) =>
    /\ 0 <= app.CommandHistory.selectedIndex[1]
    /\ app.CommandHistory.selectedIndex[1] <= Len(app.CommandHistory.history) - 1
    /\ app.shown # None =>
         CommandHistory_Hide(app).CommandHistory.history = app.shown[1]

\* The history held a command when it was shown, and Down has moved the
\* selection from that command to the entry for the current input.
C37_Witness ==
  /\ HistoryVisible(app)
  /\ app.Target = "CommandHistory"
  /\ app.shown # None
  /\ app.shown[1] # <<>>
  /\ app.CommandHistory.selectedIndex[1] = Len(app.CommandHistory.history) - 1

\* The keys the completion list is said to consume: Enter, an alphanumeric
\* character, Up, Down, and Backspace while it has pending input.
ListKey(a, key) ==
  \/ key.Text = <<"\n">>
  \/ key.Text # None /\ IsAlnum(key.Text)
  \/ key.Name \in {"Up", "Down"}
  \/ key.Name = "Backspace" /\ a.CompletionList.input # <<>>

\* A key press goes to the key target; a list or history that does not
\* consume it hands it to the console once.
DeliveredOnce(a, d) ==
  /\ Len(d) \in {1, 2}
  /\ d[1].to = a.Target
  /\ Len(d) = 2 => (d[1].to # "ConsoleInput" /\ d[2].to = "ConsoleInput")

\* The list being the key target, a key it consumes stays with it, and any
\* other key reaches the console once, the list hidden and the console the
\* key target by then.
HandedOff(a, key, d) ==
  a.Target = "CompletionList" =>
    IF ListKey(a, key) THEN Len(d) = 1
    ELSE /\ Len(d) = 2
         /\ ~d[2].box
         /\ d[2].Target = "ConsoleInput"

\* C39: each recognised non-modifier key press is delivered to exactly one
\* target; while the completion list is shown it is the key target, and a key
\* it does not consume hides the list, makes the console the key target again
\* and is then delivered to the console exactly once.
C39_Original ==
  /\ app.CompletionList.box => app.Target = "CompletionList"
  /\ \A key \in Keys, members \in MemberLists :
       key.Name # "Shift" =>
         LET d == TextInputHandler_OnKeyDown(app, <<key>>, members).delivered
         IN DeliveredOnce(app, d) /\ HandedOff(app, key, d)

====
